---- MODULE Spec2Model ----
(***************************************************************************)
(* Model of the asynchronous job execution and resilience layer of the     *)
(* Illustration Variant Generator:                                         *)
(*   - _CircuitBreaker and NanoBananaEditor._generate_with_retries         *)
(*     (src/services/ai/nano_banana.py),                                   *)
(*   - the Celery tasks and their configuration (src/tasks.py,             *)
(*     src/celery_app.py),                                                 *)
(*   - the status projection of src/routes/api.py.                         *)
(* Time is counted in integer ticks of a monotonic clock; one tick is a    *)
(* quarter of the backoff base, so that the jitter factors 0.75, 1 and     *)
(* 1.25 give whole numbers of ticks.                                       *)
(***************************************************************************)
EXTENDS Integers, Sequences, FiniteSets, TLC

(***************************************************************************)
(* Bounds of the model.                                                    *)
(***************************************************************************)
\* last tick of the monotonic clock
MaxTime == 20
\* number of calls of _generate_with_retries one worker makes
MaxCalls == 2
\* number of record_failure() calls the breaker harness makes
MaxFailures == 4
\* longest time a remote operation that returns takes
MaxOpDur == 3
\* number of jobs a worker runs one after another against a failing dependency
MaxJobs == 6
\* last tick of the clock while those jobs run
MaxSeqTime == 7
MaxAttempt == 3
MaxSent == 4
MaxDelivered == 3

VARIABLES
    breaker,    \* the _CircuitBreaker: _threshold, _cooldown, _failures, _opened_at
    now,        \* time.monotonic()
    editor,     \* NanoBananaEditor: _timeout_seconds, _max_retries, _backoff_base, _backoff_max
    pc,         \* position of the worker inside _generate_with_retries
    retries,    \* the local variable retries of _generate_with_retries
    delay,      \* the delay the worker is about to sleep
    calls,      \* calls of _generate_with_retries started so far
    attempts,   \* history: what each invocation of call_fn did in the current call
    reports,    \* history: the breaker reports made in the current call
    sleeps,     \* history: the backoff delays slept in the current call
    waited,     \* history: how long the last invocation kept the worker
    outcome,    \* how the last call ended
    admitted,   \* history: the breaker as it was when the current call started
    lastCall,   \* history: the last method called on the breaker, the breaker before it,
                \* and what it returned
    consecFail, \* history: record_failure() calls since the last record_success()
    runFail,    \* history: record_failure() calls since the breaker was last closed
    openT,      \* history: time of the last failure that opened the breaker, 0 if closed
    conf,       \* the Celery configuration built by create_celery_app
    request,    \* per job id: the submitting request, its kind and its response
    backend,    \* per job id: the task meta of the Celery result backend
    raised,     \* history, per job id: the message of the exception the body raised
    obs,        \* per job id: the payload the last status poll returned
    best,       \* history, per job id: the furthest status a poll has returned
    stream,     \* job_stream.event_generator: its position, job id, last_payload, payload
    events,     \* history: the data of the events the stream has yielded
    job,        \* the job a worker is running: its fast_mode flag and the editor it selected
    threads,    \* per thread: its position inside a method of the breaker, its locals
    runs,       \* history: the jobs a worker ran one after another, what each call did
    classified, \* the last exception given to _is_retryable_error and what it returned
    backoff,    \* the last arguments given to _compute_backoff and what it returned
    task,       \* one run of a task body: its arguments, its collaborators, what it did
    projected,  \* per job id, the last task meta given to _build_job_payload and its payload
    broker,     \* the queues of the broker, the worker pools and the jobs sent to them
    hist        \* the generation_history table, the assets saved and the last listing

callvars == <<editor, pc, retries, delay, calls, attempts, reports, sleeps, waited,
              outcome, admitted>>
harnessvars == <<lastCall, consecFail, runFail, openT>>
streamvars == <<stream, events>>
sidevars == <<broker, hist>>
purevars == <<classified, backoff, task, projected, sidevars>>
pipevars == <<job, threads, runs, purevars>>
jobvars == <<conf, request, backend, raised, obs, best, streamvars, pipevars>>
othervars == <<breaker, now, callvars, harnessvars, streamvars, pipevars>>
vars == <<breaker, now, callvars, harnessvars, jobvars>>

Max0(x) == IF x > 0 THEN x ELSE 0
Min(a, b) == IF a <= b THEN a ELSE b
Pow2(n) == 2^n

(***************************************************************************)
(* _CircuitBreaker                                                         *)
(***************************************************************************)
\* __init__: the arguments are clamped at 0; _opened_at = 0.0 means "not open"
CircuitBreaker(threshold, cooldown_seconds) ==
    [threshold |-> Max0(threshold), cooldown |-> Max0(cooldown_seconds),
     failures |-> 0, opened_at |-> 0]

\* allow() with the comparison of the cooldown turned around
allow_flipped(b, t) ==
    IF b.threshold = 0 \/ b.cooldown = 0 THEN [ret |-> TRUE, self |-> b]
    ELSE IF b.opened_at = 0 THEN [ret |-> TRUE, self |-> b]
    ELSE IF t - b.opened_at <= b.cooldown
         THEN [ret |-> TRUE, self |-> [b EXCEPT !.opened_at = 0, !.failures = 0]]
         ELSE [ret |-> FALSE, self |-> b]

\* allow() still rejecting at the instant the cooldown has elapsed
allow_strict(b, t) ==
    IF b.threshold = 0 \/ b.cooldown = 0 THEN [ret |-> TRUE, self |-> b]
    ELSE IF b.opened_at = 0 THEN [ret |-> TRUE, self |-> b]
    ELSE IF t - b.opened_at > b.cooldown
         THEN [ret |-> TRUE, self |-> [b EXCEPT !.opened_at = 0, !.failures = 0]]
         ELSE [ret |-> FALSE, self |-> b]

\* allow(): the value returned and the breaker it leaves
allow(b, t) ==
    IF b.threshold = 0 \/ b.cooldown = 0 THEN [ret |-> TRUE, self |-> b]
    ELSE IF b.opened_at = 0 THEN [ret |-> TRUE, self |-> b]
    ELSE IF t - b.opened_at >= b.cooldown
         THEN [ret |-> TRUE, self |-> [b EXCEPT !.opened_at = 0, !.failures = 0]]
         ELSE [ret |-> FALSE, self |-> b]

\* record_success() resetting the counter of a closed breaker only
record_success_closed_only(b) ==
    IF b.opened_at = 0 THEN [b EXCEPT !.failures = 0] ELSE b

record_success(b) == [b EXCEPT !.failures = 0, !.opened_at = 0]

\* record_failure() opening the breaker only after more than _threshold failures
record_failure_late(b, t) ==
    IF b.threshold = 0 THEN b
    ELSE LET f == b.failures + 1
         IN  [b EXCEPT !.failures = f,
                       !.opened_at = IF f > b.threshold /\ b.cooldown # 0 THEN t ELSE @]

\* record_failure() opening the breaker whatever the cooldown is
record_failure_any_cooldown(b, t) ==
    IF b.threshold = 0 THEN b
    ELSE LET f == b.failures + 1
         IN  [b EXCEPT !.failures = f,
                       !.opened_at = IF f >= b.threshold THEN t ELSE @]

record_failure(b, t) ==
    IF b.threshold = 0 THEN b
    ELSE LET f == b.failures + 1
         IN  [b EXCEPT !.failures = f,
                       !.opened_at = IF f >= b.threshold /\ b.cooldown # 0 THEN t ELSE @]

(***************************************************************************)
(* The Celery application and the empty job store                          *)
(***************************************************************************)
\* the job ids of the model; a request that creates no job leaves its id unused
JobIds == {1, 2}

\* create_celery_app, lines 34-61. Celery stores no result and no STARTED state for a
\* task run eagerly (task_store_eager_result is left at its default), and with
\* task_eager_propagates the exception of an eager task is raised out of delay().
create_celery_app(async_enabled, always_eager) ==
    [async_enabled |-> async_enabled,
     task_track_started |-> TRUE,
     task_always_eager |-> always_eager \/ ~async_enabled,
     task_eager_propagates |-> TRUE]

NoMeta == [status |-> "PENDING"]
NoRequest == [kind |-> "none", phase |-> "none", code |-> 0, error |-> ""]
Unobserved == [status |-> "none"]
\* the threads of one worker process
Threads == {1, 2}
\* no job is running; the worker owns the editor of _services.pipeline alone
NoJob ==
    [default_fast |-> FALSE, pc |-> "idle", fast_mode |-> "None", own |-> FALSE,
     fresh |-> [threshold |-> 0, cooldown |-> 0, failures |-> 0, opened_at |-> 0]]
\* a thread outside the breaker's methods
IdleThread == [pc |-> "idle", tmp |-> 0, failed |-> 0, others |-> FALSE]
\* no stream was requested yet; last_payload = None is the empty sequence
NoStream ==
    [pc |-> "none", job_id |-> 1, last_payload |-> <<>>, payload |-> Unobserved,
     connected |-> TRUE]

NoJobs ==
    /\ conf = create_celery_app(TRUE, FALSE)
    /\ request = [j \in JobIds |-> NoRequest]
    /\ backend = [j \in JobIds |-> NoMeta]
    /\ raised = [j \in JobIds |-> ""]
    /\ obs = [j \in JobIds |-> Unobserved]
    /\ best = [j \in JobIds |-> "none"]
    /\ stream = NoStream /\ events = <<>>

NoThreads == threads = [t \in Threads |-> IdleThread]
NoRuns == runs = <<>>
\* _is_retryable_error, _compute_backoff and the task bodies were not called yet
NoPure ==
    /\ classified = [called |-> FALSE]
    /\ backoff = [called |-> FALSE]
    /\ task = [called |-> FALSE]
    /\ projected = [j \in {1, 2} |-> [called |-> FALSE]]
    /\ broker = [sent |-> 0]
    /\ hist = [clock |-> 0]

\* the breaker rejects calls: it is enabled, opened, and the cooldown has not elapsed
IsOpen(b, t) ==
    /\ b.threshold > 0 /\ b.cooldown > 0
    /\ b.opened_at # 0
    /\ t - b.opened_at < b.cooldown

(***************************************************************************)
(* The breaker driven directly through its three methods.                  *)
(***************************************************************************)
ThresholdArgs == {-1, 1, 2, 3}
CooldownArgs == {-1, 6}

NoCall ==
    [op |-> "none", ret |-> TRUE, at |-> 0,
     before |-> [threshold |-> 0, cooldown |-> 0, failures |-> 0, opened_at |-> 0]]

IdleCall ==
    /\ pc = "idle" /\ retries = 0 /\ delay = 0 /\ calls = 0
    /\ attempts = <<>> /\ reports = <<>> /\ sleeps = <<>> /\ waited = 0
    /\ outcome = [kind |-> "none", type |-> "", msg |-> ""]

InitBreaker ==
    /\ \E th \in ThresholdArgs, cd \in CooldownArgs : breaker = CircuitBreaker(th, cd)
    /\ now = 1
    /\ editor = [timeout_seconds |-> 0, max_retries |-> 0, backoff_base |-> 0,
                 backoff_max |-> 0]
    /\ IdleCall
    /\ admitted = [self |-> breaker, open |-> FALSE]
    /\ lastCall = NoCall /\ consecFail = 0 /\ runFail = 0 /\ openT = 0
    /\ NoJobs
    /\ job = NoJob /\ NoThreads /\ NoRuns /\ NoPure

CallAllow ==
    LET a == allow(breaker, now)
        elapsed == openT # 0 /\ now - openT >= breaker.cooldown
    IN  /\ breaker' = a.self
        /\ lastCall' = [op |-> "allow", ret |-> a.ret, at |-> now, before |-> breaker]
        /\ runFail' = IF elapsed THEN 0 ELSE runFail
        /\ openT' = IF elapsed THEN 0 ELSE openT
        /\ UNCHANGED <<now, consecFail, callvars, jobvars>>

CallRecordSuccess ==
    /\ breaker' = record_success(breaker)
    /\ lastCall' = [op |-> "record_success", ret |-> TRUE, at |-> now,
                    before |-> breaker]
    /\ consecFail' = 0 /\ runFail' = 0 /\ openT' = 0
    /\ UNCHANGED <<now, callvars, jobvars>>

CallRecordFailure ==
    /\ consecFail < MaxFailures
    /\ breaker' = record_failure(breaker, now)
    /\ lastCall' = [op |-> "record_failure", ret |-> TRUE, at |-> now,
                    before |-> breaker]
    /\ consecFail' = consecFail + 1
    /\ runFail' = runFail + 1
    /\ openT' = IF breaker.threshold > 0 /\ breaker.cooldown > 0
                   /\ runFail + 1 >= breaker.threshold
                THEN now ELSE openT
    /\ UNCHANGED <<now, callvars, jobvars>>

Tick ==
    /\ now < MaxTime
    /\ now' = now + 1
    /\ UNCHANGED <<breaker, callvars, harnessvars, jobvars>>

NextBreaker == CallAllow \/ CallRecordSuccess \/ CallRecordFailure \/ Tick

BreakerSpec == InitBreaker /\ [][NextBreaker]_vars

(***************************************************************************)
(* The resilient call: _call_with_timeout, _compute_backoff,               *)
(* _is_retryable_error and NanoBananaEditor._generate_with_retries.        *)
(***************************************************************************)
\* status codes an SDK error may carry (0: it carries none)
Codes == {400, 501, 503}
\* the retry tokens a lower-cased error message may contain
retry_tokens == {"429", "503", "502", "504", "resource_exhausted", "rate limit", "quota",
                 "unavailable", "overloaded", "timeout", "deadline"}
\* the errors call_fn raises: is it a TimeoutError, its code, the retry tokens in its text
Errors ==
    {[timeout |-> FALSE, code |-> c, tokens |-> {}] : c \in Codes}
    \cup {[timeout |-> FALSE, code |-> 400, tokens |-> {"quota"}],
          [timeout |-> FALSE, code |-> 0, tokens |-> {}]}
\* the TimeoutError("Gemini request timed out.") of _call_with_timeout
TimedOut == [timeout |-> TRUE, code |-> 0, tokens |-> {"timeout"}]
NoError == [timeout |-> FALSE, code |-> 0, tokens |-> {}]

\* what one invocation of call_fn does: return or raise after dur ticks, or never return
Operations ==
    {[does |-> "return", dur |-> d, exc |-> NoError] : d \in {0, 2, MaxOpDur}}
    \cup {[does |-> "raise", dur |-> 0, exc |-> e] : e \in Errors}
    \cup {[does |-> "hang", dur |-> 0, exc |-> NoError]}

is_retryable_error(exc) ==
    IF exc.timeout THEN TRUE
    ELSE IF exc.code # 0 /\ exc.code \in {429, 500, 502, 503, 504} THEN TRUE
    ELSE exc.tokens \cap retry_tokens # {}

\* the jitter factors of random.uniform(0.75, 1.25), in percent
Jitter == {75, 100, 125}

\* the cap left out
compute_backoff_uncapped(base, cap, attempt) ==
    IF base <= 0 THEN {0}
    ELSE {(base * Pow2(attempt) * j) \div 100 : j \in Jitter}

\* the delays _compute_backoff may return
compute_backoff(base, cap, attempt) ==
    IF base <= 0 THEN {0}
    ELSE LET d == base * Pow2(attempt)
             c == IF cap > 0 THEN Min(d, cap) ELSE d
         IN  {(c * j) \div 100 : j \in Jitter}

\* _call_with_timeout: future.result(timeout) raises after the timeout, and leaving
\* the `with ThreadPoolExecutor` block then joins the worker thread (shutdown(wait=True)),
\* which lasts until call_fn returns. tie: the timeout wins the race with a call_fn
\* that returns exactly at the timeout.
call_with_timeout(op, timeout_seconds, tie) ==
    LET late == \/ op.does = "hang"
                \/ op.dur > timeout_seconds
                \/ (op.dur = timeout_seconds /\ tie)
    IN  IF timeout_seconds <= 0
        THEN IF op.does = "hang" THEN [kind |-> "blocked", exc |-> NoError, elapsed |-> 0]
             ELSE [kind |-> IF op.does = "return" THEN "returned" ELSE "raised",
                   exc |-> op.exc, elapsed |-> op.dur]
        ELSE IF late
             THEN IF op.does = "hang"
                  THEN [kind |-> "blocked", exc |-> TimedOut, elapsed |-> timeout_seconds]
                  ELSE [kind |-> "raised", exc |-> TimedOut, elapsed |-> op.dur]
             ELSE [kind |-> IF op.does = "return" THEN "returned" ELSE "raised",
                   exc |-> op.exc, elapsed |-> op.dur]

\* NanoBananaEditor.__init__: the arguments are clamped at 0
TimeoutArgs == {-1, 2}
MaxRetriesArgs == {-1, 1, 2}
BackoffArgs == {<<-1, 0>>, <<4, 8>>}
\* the breakers the editor is built with: disabled by either argument, or enabled
BreakerArgs == {<<-1, 6>>, <<2, -1>>, <<2, 6>>, <<3, 6>>}

NanoBananaEditor(timeout_seconds, max_retries, backoff_base_seconds, backoff_max_seconds) ==
    [timeout_seconds |-> Max0(timeout_seconds), max_retries |-> Max0(max_retries),
     backoff_base |-> Max0(backoff_base_seconds), backoff_max |-> Max0(backoff_max_seconds)]

\* lines 315-318 deciding without the check of _is_retryable_error
after_failure_no_fatal(retryable, n, max_retries) ==
    IF n >= max_retries THEN "exhausted" ELSE "retry"

\* lines 315-318 with the retry budget compared one too late
after_failure_late(retryable, n, max_retries) ==
    IF ~retryable THEN "fatal"
    ELSE IF n > max_retries THEN "exhausted"
    ELSE "retry"

\* lines 315-318 with the retry budget compared one too early
after_failure_early(retryable, n, max_retries) ==
    IF ~retryable THEN "fatal"
    ELSE IF n + 1 >= max_retries THEN "exhausted"
    ELSE "retry"

\* lines 315-318: what the loop does after a failed invocation, n retries made so far
after_failure(retryable, n, max_retries) ==
    IF ~retryable THEN "fatal"
    ELSE IF n >= max_retries THEN "exhausted"
    ELSE "retry"

\* the report made for a fatal error only
breaker_report_fatal_only(kind, retryable) ==
    IF kind = "returned" THEN "success"
    ELSE IF retryable THEN "none" ELSE "failure"

\* the report skipped for a fatal error
breaker_report_retryable_only(kind, retryable) ==
    IF kind = "returned" THEN "success"
    ELSE IF retryable THEN "failure" ELSE "none"

\* lines 310 and 314: the method of the breaker called after an invocation
breaker_report(kind, retryable) ==
    IF kind = "returned" THEN "success" ELSE "failure"

\* the report of line 314 left out: failures are never recorded
reported_success_only(b, report, t) ==
    IF report = "success" THEN record_success(b) ELSE b

\* the breaker after the report
reported(b, report, t) ==
    IF report = "success" THEN record_success(b)
    ELSE IF report = "failure" THEN record_failure(b, t)
    ELSE b

Returned == [kind |-> "returned", type |-> "", msg |-> ""]
Raised(type, msg) == [kind |-> "raised", type |-> type, msg |-> msg]
Running == [kind |-> "running", type |-> "", msg |-> ""]

InitCall ==
    /\ \E ba \in BreakerArgs : breaker = CircuitBreaker(ba[1], ba[2])
    /\ \E to \in TimeoutArgs, mr \in MaxRetriesArgs, bo \in BackoffArgs :
          editor = NanoBananaEditor(to, mr, bo[1], bo[2])
    /\ now = 1
    /\ IdleCall
    /\ admitted = [self |-> breaker, open |-> FALSE]
    /\ lastCall = NoCall /\ consecFail = 0 /\ runFail = 0 /\ openT = 0
    /\ NoJobs
    /\ job = NoJob /\ NoThreads /\ NoRuns /\ NoPure

\* what the text of an error of _generate_with_retries tells its reader
says(msg) ==
    CASE msg = "AI temporarily unavailable; please retry." ->
             {"temporarily unavailable", "please retry"}
      [] msg = "AI generation failed; please retry." -> {"generation failed", "please retry"}
      [] msg = "AI request failed." -> {"request failed"}
      [] OTHER -> {}

\* _generate_with_retries, lines 301-306: the breaker is consulted once, before the loop
StartCall ==
    /\ pc = "idle" /\ calls < MaxCalls
    /\ LET a == allow(breaker, now)
       IN  /\ breaker' = a.self
           /\ admitted' = [self |-> breaker, open |-> IsOpen(breaker, now)]
           /\ calls' = calls + 1
           /\ attempts' = <<>> /\ reports' = <<>> /\ sleeps' = <<>> /\ waited' = 0
           /\ retries' = 0 /\ delay' = 0
           /\ IF a.ret
              THEN pc' = "attempt" /\ outcome' = Running
              ELSE /\ pc' = "idle"
                   /\ outcome' = Raised("NanoBananaRetryableError",
                                        "AI temporarily unavailable; please retry.")
    /\ UNCHANGED <<now, editor, harnessvars, jobvars>>

\* one iteration of the loop, lines 307-327: call_fn under the timeout, the report to
\* the breaker, and the decision to return, raise or retry
Attempt(op, tie) ==
    /\ pc = "attempt"
    /\ LET r == call_with_timeout(op, editor.timeout_seconds, tie)
           t == now + r.elapsed
       IN  /\ t <= MaxTime
           /\ attempts' = Append(attempts, [result |-> r.kind,
                                         retryable |-> is_retryable_error(r.exc)])
           /\ waited' = r.elapsed
           /\ now' = t
           /\ IF r.kind = "blocked"
              THEN /\ pc' = "blocked"
                   /\ UNCHANGED <<breaker, reports, outcome, retries, delay>>
              ELSE LET retryable == is_retryable_error(r.exc)
                       report == breaker_report(r.kind, retryable)
                       then == IF r.kind = "returned" THEN "return"
                               ELSE after_failure(retryable, retries, editor.max_retries)
                   IN  /\ breaker' = reported(breaker, report, t)
                       /\ reports' = IF report = "none" THEN reports
                                      ELSE Append(reports, report)
                       /\ CASE then = "return" ->
                                /\ outcome' = Returned
                                /\ pc' = "idle"
                                /\ UNCHANGED <<retries, delay>>
                            [] then = "fatal" ->
                                /\ outcome' = Raised("NanoBananaError", "AI request failed.")
                                /\ pc' = "idle"
                                /\ UNCHANGED <<retries, delay>>
                            [] then = "exhausted" ->
                                /\ outcome' = Raised("NanoBananaRetryableError",
                                                     "AI generation failed; please retry.")
                                /\ pc' = "idle"
                                /\ UNCHANGED <<retries, delay>>
                            [] then = "retry" ->
                                /\ delay' \in compute_backoff(editor.backoff_base,
                                                              editor.backoff_max, retries)
                                /\ retries' = retries + 1
                                /\ pc' = "sleep"
                                /\ UNCHANGED outcome
    /\ UNCHANGED <<editor, calls, sleeps, admitted, harnessvars, jobvars>>

\* the loop asking the breaker again before each retry
next_iteration_asks_breaker(b, t) == IF allow(b, t).ret THEN "attempt" ELSE "reject"

\* lines 307 and 328: after the sleep the loop goes to its next iteration; the breaker
\* is not read
next_iteration(b, t) == "attempt"

\* time.sleep(delay), line 328
Sleep ==
    /\ pc = "sleep"
    /\ now + delay <= MaxTime
    /\ now' = now + delay
    /\ sleeps' = Append(sleeps, delay)
    /\ IF next_iteration(breaker, now + delay) = "attempt"
       THEN pc' = "attempt" /\ UNCHANGED outcome
       ELSE /\ pc' = "idle"
            /\ outcome' = Raised("NanoBananaRetryableError",
                                 "AI temporarily unavailable; please retry.")
    /\ UNCHANGED <<breaker, editor, retries, delay, calls, attempts, reports, waited,
                   admitted, harnessvars, jobvars>>

\* time passes between two calls, or while the worker is blocked
Wait ==
    /\ pc \in {"idle", "blocked"}
    /\ now < MaxTime
    /\ now' = now + 1
    /\ UNCHANGED <<breaker, callvars, harnessvars, jobvars>>

NextCall ==
    \/ StartCall
    \/ \E op \in Operations, tie \in BOOLEAN : Attempt(op, tie)
    \/ Sleep
    \/ Wait

CallSpec == InitCall /\ [][NextCall]_vars

(***************************************************************************)
(* The job queue: create_celery_app, the two tasks, the submitting         *)
(* handlers and the status projection.                                     *)
(***************************************************************************)
\* what a task body does: return a payload or raise an exception
Return(payload) == [how |-> "return", payload |-> payload, exc |-> [type |-> "", msg |-> ""]]
Raise(type, msg) == [how |-> "raise", payload |-> [job_type |-> ""],
                     exc |-> [type |-> type, msg |-> msg]]
ErrorPayload(job_type, msg) == [job_type |-> job_type, error |-> msg]

\* the arguments of generate_variation_task a request passes, by which are non-empty
VariationArgs ==
    [session_id : {TRUE}, prompt : BOOLEAN, style_id : BOOLEAN, previous : BOOLEAN,
     upload_asset_id : BOOLEAN]
\* what the collaborators do during one run of generate_variation_task
VariationEnvs ==
    [services : {"ok", "raise"}, style_found : BOOLEAN, asset_found : BOOLEAN,
     reference_is_file : BOOLEAN,
     pipeline : {"ok", "AI generation failed; please retry.", "AI request failed."},
     save : {"ok", "raise"}, history : {"ok", "raise"}]

\* the append to the history outside its try statement
add_entry_unguarded(history) == history

\* tasks.py lines 242-245 and 295-298: add_entry inside try/except Exception, which logs
\* a warning; what the statement leaves the body with
add_entry_guarded(history) == "ok"

\* generate_variation_task, lines 174-254
generate_variation_task(a, e) ==
    IF ~a.session_id THEN Return(ErrorPayload("variation", "Missing session id."))
    ELSE IF e.services = "raise"
    THEN Raise("RuntimeError", "DATABASE_URL is required for image storage.")
    ELSE IF a.style_id /\ ~e.style_found
    THEN Return(ErrorPayload("variation", "Style not found."))
    ELSE IF a.upload_asset_id /\ ~e.asset_found
    THEN Return(ErrorPayload("variation", "Uploaded image not found."))
    ELSE IF ~a.upload_asset_id /\ a.previous /\ ~e.asset_found
    THEN Return(ErrorPayload("variation", "Previous result not found."))
    ELSE IF ~a.upload_asset_id /\ ~a.previous /\ a.style_id /\ ~e.reference_is_file
    THEN Return(ErrorPayload("variation", "Style reference unavailable."))
    ELSE IF ~a.upload_asset_id /\ ~a.previous /\ ~a.style_id
    THEN Return(ErrorPayload("variation",
                "Upload an image, enable forward generation, or select a style."))
    ELSE IF a.prompt /\ e.pipeline # "ok" THEN Raise("AIProcessingError", e.pipeline)
    ELSE IF e.save = "raise" THEN Raise("StorageError", "Database unavailable.")
    ELSE IF add_entry_guarded(e.history) = "raise"
    THEN Raise("RuntimeError", "History unavailable.")
    ELSE Return([job_type |-> "variation", result_id |-> "asset",
                 prompt_used |-> a.prompt])

\* the arguments of remove_background_task a request passes
BackgroundArgs == [session_id : {TRUE}, image_id : {TRUE}]
\* what the collaborators do during one run of remove_background_task
BackgroundEnvs ==
    [services : {"ok", "raise"}, available : BOOLEAN, asset_found : BOOLEAN,
     output : BOOLEAN, save : {"ok", "raise"}, history : {"ok", "raise"}]

\* remove_background_task without the check of the transform's output, lines 284-285
remove_background_task_unchecked(a, e) ==
    IF ~a.session_id THEN Return(ErrorPayload("background_removal", "Missing session id."))
    ELSE IF ~a.image_id
    THEN Return(ErrorPayload("background_removal", "Missing image id."))
    ELSE IF e.services = "raise"
    THEN Raise("RuntimeError", "DATABASE_URL is required for image storage.")
    ELSE IF ~e.available
    THEN Return(ErrorPayload("background_removal", "Background removal unavailable."))
    ELSE IF ~e.asset_found
    THEN Return(ErrorPayload("background_removal", "Result image not found."))
    ELSE IF e.save = "raise" THEN Raise("StorageError", "Database unavailable.")
    ELSE Return([job_type |-> "background_removal", image_id |-> "asset",
                 original_url |-> <<"/api/images", "input">>])

\* remove_background_task, lines 264-304
remove_background_task(a, e) ==
    IF ~a.session_id THEN Return(ErrorPayload("background_removal", "Missing session id."))
    ELSE IF ~a.image_id
    THEN Return(ErrorPayload("background_removal", "Missing image id."))
    ELSE IF e.services = "raise"
    THEN Raise("RuntimeError", "DATABASE_URL is required for image storage.")
    ELSE IF ~e.available
    THEN Return(ErrorPayload("background_removal", "Background removal unavailable."))
    ELSE IF ~e.asset_found
    THEN Return(ErrorPayload("background_removal", "Result image not found."))
    ELSE IF ~e.output
    THEN Return(ErrorPayload("background_removal", "Background removal failed."))
    ELSE IF e.save = "raise" THEN Raise("StorageError", "Database unavailable.")
    ELSE IF add_entry_guarded(e.history) = "raise"
    THEN Raise("RuntimeError", "History unavailable.")
    ELSE Return([job_type |-> "background_removal", image_id |-> "asset",
                 original_url |-> <<"/api/images", "input">>])

\* create_variation, line 279: the request names a source
NamesSource(a) == a.upload_asset_id \/ a.previous \/ a.style_id

\* every way a run of generate_variation_task can end when its arguments passed the
\* checks of create_variation
VariationRuns ==
    {generate_variation_task(a, e) : a \in {x \in VariationArgs : NamesSource(x)},
                                     e \in VariationEnvs}
\* every way a run of remove_background_task can end
BackgroundRuns == {remove_background_task(a, e) : a \in BackgroundArgs, e \in BackgroundEnvs}

\* the task meta a worker stores when the body has run
MetaOf(run) ==
    IF run.how = "return" THEN [status |-> "SUCCESS", result |-> run.payload]
    ELSE [status |-> "FAILURE", result |-> run.exc]

(***************************************************************************)
(* Status projection, src/routes/api.py                                    *)
(***************************************************************************)
\* str.upper() on the names of the task states
upper(state) ==
    CASE state = "pending" -> "PENDING"
      [] state = "started" -> "STARTED"
      [] state = "success" -> "SUCCESS"
      [] state = "failure" -> "FAILURE"
      [] OTHER -> state

\* RETRY taken for a state of a task that has not started
map_task_status_retry_pending(state) ==
    IF upper(state) \in {"PENDING", "RECEIVED", "RETRY"} THEN "pending"
    ELSE IF upper(state) = "STARTED" THEN "processing"
    ELSE IF upper(state) = "SUCCESS" THEN "complete"
    ELSE IF upper(state) = "FAILURE" THEN "failed"
    ELSE "pending"

\* the states the mapping does not name taken for failures
map_task_status_unknown_failed(state) ==
    IF upper(state) \in {"PENDING", "RECEIVED"} THEN "pending"
    ELSE IF upper(state) \in {"STARTED", "RETRY"} THEN "processing"
    ELSE IF upper(state) = "SUCCESS" THEN "complete"
    ELSE "failed"

_map_task_status(state) ==
    IF upper(state) \in {"PENDING", "RECEIVED"} THEN "pending"
    ELSE IF upper(state) \in {"STARTED", "RETRY"} THEN "processing"
    ELSE IF upper(state) = "SUCCESS" THEN "complete"
    ELSE IF upper(state) = "FAILURE" THEN "failed"
    ELSE "pending"

\* dict.get("error") of a task's payload is truthy
HasError(payload) == "error" \in DOMAIN payload /\ payload.error # ""

\* _format_variation_result and _format_background_result: the id and its URL
FormatResult(payload) ==
    IF payload.job_type = "variation"
    THEN [result_id |-> payload.result_id, result_url |-> <<"/api/images", payload.result_id>>,
          prompt_used |-> payload.prompt_used]
    ELSE [image_id |-> payload.image_id, result_url |-> <<"/api/images", payload.image_id>>]

\* _build_job_payload without the check of the task's error payload, lines 139-142
build_job_payload_no_error_check(job_id, meta) ==
    LET status == _map_task_status(meta.status)
    IN  IF status = "failed"
        THEN [job_id |-> job_id, status |-> status, error |-> meta.result.msg]
        ELSE IF status # "complete"
        THEN [job_id |-> job_id, status |-> status]
        ELSE IF HasError(meta.result)
        THEN [job_id |-> job_id, status |-> "complete", error |-> meta.result.error]
        ELSE [job_id |-> job_id, status |-> "complete",
              job_type |-> meta.result.job_type, result |-> FormatResult(meta.result)]

\* _build_job_payload, lines 126-156; str(result.info) of a stored exception is its message
build_job_payload(job_id, meta) ==
    LET status == _map_task_status(meta.status)
    IN  IF status = "failed"
        THEN [job_id |-> job_id, status |-> status, error |-> meta.result.msg]
        ELSE IF status # "complete"
        THEN [job_id |-> job_id, status |-> status]
        ELSE IF HasError(meta.result)
        THEN [job_id |-> job_id, status |-> "failed", error |-> meta.result.error]
        ELSE [job_id |-> job_id, status |-> "complete",
              job_type |-> meta.result.job_type, result |-> FormatResult(meta.result)]

Rank(status) ==
    CASE status = "none" -> 0
      [] status = "pending" -> 1
      [] status = "processing" -> 2
      [] status \in {"complete", "failed"} -> 3

(***************************************************************************)
(* The requests and the worker                                             *)
(***************************************************************************)
InitJobs ==
    /\ \E ae \in BOOLEAN, eager \in BOOLEAN : conf = create_celery_app(ae, eager)
    /\ request = [j \in JobIds |-> NoRequest]
    /\ backend = [j \in JobIds |-> NoMeta]
    /\ raised = [j \in JobIds |-> ""]
    /\ obs = [j \in JobIds |-> Unobserved]
    /\ best = [j \in JobIds |-> "none"]
    /\ stream = NoStream /\ events = <<>>
    /\ breaker = CircuitBreaker(5, 60)
    /\ editor = NanoBananaEditor(60, 2, 1, 8)
    /\ now = 1
    /\ IdleCall
    /\ admitted = [self |-> breaker, open |-> FALSE]
    /\ lastCall = NoCall /\ consecFail = 0 /\ runFail = 0 /\ openT = 0
    /\ job = NoJob /\ NoThreads /\ NoRuns /\ NoPure

Unused(j) == request[j].phase = "none"
Response(kind, phase, code, error) ==
    [kind |-> kind, phase |-> phase, code |-> code, error |-> error]

\* create_variation, lines 264-283: the upload cannot be stored, or no source is named
create_variation_rejected(j, stored, a) ==
    /\ Unused(j)
    /\ ~stored \/ ~NamesSource(a)
    /\ request' = [request EXCEPT ![j] =
          IF ~stored THEN Response("variation", "rejected", 400, "Unsupported file type.")
          ELSE Response("variation", "rejected", 400,
                        "Upload an image, enable forward generation, or select a style.")]
    /\ UNCHANGED <<conf, backend, raised, obs, best>>
    /\ UNCHANGED othervars

\* create_variation, lines 285-308, with a worker: delay() sends the task to the broker
create_variation_queued(j, broker_up) ==
    /\ Unused(j)
    /\ ~conf.task_always_eager
    /\ request' = [request EXCEPT ![j] =
          IF ~broker_up
          THEN Response("variation", "rejected", 503, "Failed to start generation.")
          ELSE Response("variation", "queued", 202, "")]
    /\ UNCHANGED <<conf, backend, raised, obs, best>>
    /\ UNCHANGED othervars

\* create_variation, lines 285-308, with task_always_eager: delay() runs the body and
\* raises what the body raises
create_variation_eager(j, run) ==
    /\ Unused(j)
    /\ conf.task_always_eager
    /\ raised' = [raised EXCEPT ![j] = IF run.how = "raise" THEN run.exc.msg ELSE @]
    /\ request' = [request EXCEPT ![j] =
          IF run.how = "raise"
          THEN IF run.exc.type = "AIProcessingError"
               THEN Response("variation", "raised", 503, run.exc.msg)
               ELSE Response("variation", "raised", 503, "Failed to start generation.")
          ELSE Response("variation", "done", 202, "")]
    /\ UNCHANGED <<conf, backend, obs, best>>
    /\ UNCHANGED othervars

\* remove_background, lines 312-333: no image id in the request
remove_background_rejected(j) ==
    /\ Unused(j)
    /\ request' = [request EXCEPT ![j] =
          Response("background_removal", "rejected", 400, "Missing image id.")]
    /\ UNCHANGED <<conf, backend, raised, obs, best>>
    /\ UNCHANGED othervars

\* remove_background, lines 335-349, with a worker: delay() is not guarded, a broker
\* that is down fails the request
remove_background_queued(j, broker_up) ==
    /\ Unused(j)
    /\ conf.async_enabled /\ ~conf.task_always_eager
    /\ request' = [request EXCEPT ![j] =
          IF ~broker_up
          THEN Response("background_removal", "rejected", 500, "Internal Server Error")
          ELSE Response("background_removal", "queued", 202, "")]
    /\ UNCHANGED <<conf, backend, raised, obs, best>>
    /\ UNCHANGED othervars

\* remove_background, lines 335-349, with task_always_eager: delay() runs the body and
\* what the body raises leaves the handler
remove_background_eager(j, run) ==
    /\ Unused(j)
    /\ conf.async_enabled /\ conf.task_always_eager
    /\ raised' = [raised EXCEPT ![j] = IF run.how = "raise" THEN run.exc.msg ELSE @]
    /\ request' = [request EXCEPT ![j] =
          IF run.how = "raise"
          THEN Response("background_removal", "raised", 500, "Internal Server Error")
          ELSE Response("background_removal", "done", 202, "")]
    /\ UNCHANGED <<conf, backend, obs, best>>
    /\ UNCHANGED othervars

\* remove_background, lines 351-389: the transform run inside the request
remove_background_inline(j, e) ==
    /\ Unused(j)
    /\ ~conf.async_enabled
    /\ request' = [request EXCEPT ![j] =
          IF ~e.available
          THEN Response("background_removal", "inline", 503, "Background removal unavailable.")
          ELSE IF ~e.asset_found
          THEN Response("background_removal", "inline", 404, "Result image not found.")
          ELSE IF ~e.output
          THEN Response("background_removal", "inline", 500, "Background removal failed.")
          ELSE Response("background_removal", "inline", 200, "")]
    /\ UNCHANGED <<conf, backend, raised, obs, best>>
    /\ UNCHANGED othervars

\* a worker takes the job from its queue; task_track_started stores STARTED
WorkerStart(j) ==
    /\ request[j].phase = "queued"
    /\ request' = [request EXCEPT ![j].phase = "started"]
    /\ backend' = [backend EXCEPT ![j] = [status |-> "STARTED"]]
    /\ UNCHANGED <<conf, raised, obs, best>>
    /\ UNCHANGED othervars

\* the worker runs the body and stores SUCCESS with the returned payload, or FAILURE
\* with the exception
WorkerFinish(j, run) ==
    /\ request[j].phase = "started"
    /\ run \in (IF request[j].kind = "variation" THEN VariationRuns ELSE BackgroundRuns)
    /\ request' = [request EXCEPT ![j].phase = "done"]
    /\ backend' = [backend EXCEPT ![j] = MetaOf(run)]
    /\ raised' = [raised EXCEPT ![j] = IF run.how = "raise" THEN run.exc.msg ELSE @]
    /\ UNCHANGED <<conf, obs, best>>
    /\ UNCHANGED othervars

\* result_expires, celery_app.py line 59: the backend drops the stored meta of a
\* finished task, and the state of an id it does not hold reads PENDING
Expire(j) ==
    /\ backend[j].status \in {"SUCCESS", "FAILURE"}
    /\ backend' = [backend EXCEPT ![j] = NoMeta]
    /\ UNCHANGED <<conf, request, raised, obs, best>>
    /\ UNCHANGED othervars

\* job_status, or one round of job_stream: _build_job_payload(request, job_id)
Poll(j) ==
    /\ obs' = [obs EXCEPT ![j] = build_job_payload(j, backend[j])]
    /\ best' = [best EXCEPT ![j] = IF Rank(obs'[j].status) > Rank(@)
                                   THEN obs'[j].status ELSE @]
    /\ UNCHANGED <<conf, request, backend, raised>>
    /\ UNCHANGED othervars

NextJobs ==
       \/ \E j \in JobIds, stored \in BOOLEAN, a \in VariationArgs :
             create_variation_rejected(j, stored, a)
       \/ \E j \in JobIds, up \in BOOLEAN : create_variation_queued(j, up)
       \/ \E j \in JobIds, run \in VariationRuns : create_variation_eager(j, run)
       \/ \E j \in JobIds : remove_background_rejected(j)
       \/ \E j \in JobIds, up \in BOOLEAN : remove_background_queued(j, up)
       \/ \E j \in JobIds, run \in BackgroundRuns : remove_background_eager(j, run)
       \/ \E j \in JobIds, e \in BackgroundEnvs : remove_background_inline(j, e)
       \/ \E j \in JobIds : WorkerStart(j)
       \/ \E j \in JobIds, run \in VariationRuns \cup BackgroundRuns : WorkerFinish(j, run)
       \/ \E j \in JobIds : Expire(j)
       \/ \E j \in JobIds : Poll(j)

JobSpec == InitJobs /\ [][NextJobs]_vars

(***************************************************************************)
(* The status stream: job_stream.event_generator, api.py lines 165-178.    *)
(***************************************************************************)
storevars == <<conf, request, backend, raised, obs, best>>
workervars == <<breaker, now, callvars, harnessvars, pipevars>>

\* json.dumps(payload): the keys and values in the order _build_job_payload inserted them
json_dumps(payload) ==
    <<"job_id", payload.job_id, "status", payload.status>>
    \o (IF "error" \in DOMAIN payload THEN <<"error", payload.error>> ELSE <<>>)
    \o (IF "job_type" \in DOMAIN payload THEN <<"job_type", payload.job_type>> ELSE <<>>)
    \o (IF "result" \in DOMAIN payload THEN <<"result", payload.result>> ELSE <<>>)

\* the status an emitted event carries
StatusOf(data) == data[4]

\* line 172 pushing every payload, changed or not
should_emit_always(data, last_payload) == TRUE

\* line 172: only push updates when the payload changes
should_emit(data, last_payload) == data # last_payload

\* line 176 ending the stream for a complete job only
is_terminal_complete_only(payload) == payload.status = "complete"

\* line 176 tested before the event is pushed, so that the terminal event is dropped
emits_before_break_swapped(payload) == payload.status \notin {"complete", "failed"}

\* lines 172-177: the terminal payload is pushed before the loop is left
emits_before_break(payload) == TRUE

\* line 176: payload.get("status") in {"complete", "failed"}
\* the loop left only on a payload that carries a result
is_terminal_with_result(payload) == "result" \in DOMAIN payload

is_terminal(payload) == payload.status \in {"complete", "failed"}

\* a task still waiting on its queue is revoked through the Celery application; the
\* worker drops it and the backend keeps REVOKED for it, with a TaskRevokedError as its
\* result: a state _map_task_status does not name
Revoke(j) ==
    /\ request[j].phase = "queued"
    /\ request' = [request EXCEPT ![j].phase = "revoked"]
    /\ backend' = [backend EXCEPT ![j] =
                       [status |-> "REVOKED",
                        result |-> [type |-> "TaskRevokedError", msg |-> "revoked"]]]
    /\ UNCHANGED <<conf, raised, obs, best, streamvars, workervars>>

\* GET /api/jobs/{job_id}/stream: any job id is accepted, the generator starts
StreamOpen(j) ==
    /\ stream.pc = "none"
    /\ stream' = [NoStream EXCEPT !.pc = "check", !.job_id = j]
    /\ UNCHANGED <<events, storevars, workervars>>

\* lines 168-170: leave the loop when the client is gone, else poll the job
StreamCheck ==
    /\ stream.pc = "check"
    /\ stream' = IF ~stream.connected
                 THEN [stream EXCEPT !.pc = "closed"]
                 ELSE [stream EXCEPT !.pc = "emit",
                          !.payload = build_job_payload(stream.job_id,
                                                        backend[stream.job_id])]
    /\ UNCHANGED <<events, storevars, workervars>>

\* lines 171-177: push the payload if it changed, then leave the loop on a terminal
\* status or sleep
StreamEmit ==
    /\ stream.pc = "emit"
    /\ LET data == json_dumps(stream.payload)
           push == should_emit(data, stream.last_payload)
                   /\ (emits_before_break(stream.payload) \/ ~is_terminal(stream.payload))
       IN  /\ events' = IF push THEN Append(events, data) ELSE events
           /\ stream' = [stream EXCEPT
                            !.last_payload = IF push THEN data ELSE @,
                            !.pc = IF is_terminal(stream.payload) THEN "closed"
                                   ELSE "sleep"]
    /\ UNCHANGED <<storevars, workervars>>

\* line 178: asyncio.sleep(poll_interval) is over
StreamWake ==
    /\ stream.pc = "sleep"
    /\ stream' = [stream EXCEPT !.pc = "check"]
    /\ UNCHANGED <<events, storevars, workervars>>

\* the client goes away; request.is_disconnected() is true from now on
StreamDisconnect ==
    /\ stream.pc \in {"check", "emit", "sleep"}
    /\ stream.connected
    /\ stream' = [stream EXCEPT !.connected = FALSE]
    /\ UNCHANGED <<events, storevars, workervars>>

NextStream ==
       \/ \E j \in JobIds, up \in BOOLEAN : create_variation_queued(j, up)
       \/ \E j \in JobIds, run \in VariationRuns : create_variation_eager(j, run)
       \/ \E j \in JobIds, up \in BOOLEAN : remove_background_queued(j, up)
       \/ \E j \in JobIds, run \in BackgroundRuns : remove_background_eager(j, run)
       \/ \E j \in JobIds : WorkerStart(j)
       \/ \E j \in JobIds, run \in VariationRuns \cup BackgroundRuns : WorkerFinish(j, run)
       \/ \E j \in JobIds : Expire(j)
       \/ \E j \in JobIds : Revoke(j)
       \/ \E j \in JobIds : StreamOpen(j)
       \/ StreamCheck
       \/ StreamEmit
       \/ StreamWake
       \/ StreamDisconnect

\* the event loop runs the generator for as long as the response is open
StreamSpec ==
    /\ InitJobs
    /\ [][NextStream]_vars
    /\ WF_vars(StreamCheck) /\ WF_vars(StreamEmit) /\ WF_vars(StreamWake)

(***************************************************************************)
(* The editor a job calls: generate_variation_task lines 177-181,          *)
(* _select_pipeline and build_image_editor. The worker runs one job at a   *)
(* time; breaker is the breaker of the editor of _services.pipeline.       *)
(***************************************************************************)
\* the values of the task's fast_mode argument
FastModeArgs == {"None", "False", "True"}

\* _select_pipeline: the base pipeline, or a pipeline with an editor built for this job
select_pipeline(default_fast, fast_mode) ==
    IF fast_mode = default_fast THEN "base" ELSE "new"

\* lines 179-181 of generate_variation_task
pipeline_of(default_fast, fast_mode) ==
    IF fast_mode # "None" THEN select_pipeline(default_fast, fast_mode = "True")
    ELSE "base"

\* the breaker of the editor the running job calls
UsedBreaker == IF job.own THEN job.fresh ELSE breaker

\* the breaker configurations of the worker: enabled, or disabled by the cooldown
WorkerBreakerArgs == {<<2, -1>>, <<2, 6>>}

InitWorker ==
    /\ \E ba \in WorkerBreakerArgs : breaker = CircuitBreaker(ba[1], ba[2])
    /\ editor = NanoBananaEditor(60, 2, 1, 8)
    /\ now = 1
    /\ IdleCall
    /\ admitted = [self |-> breaker, open |-> FALSE]
    /\ lastCall = NoCall /\ consecFail = 0 /\ runFail = 0 /\ openT = 0
    /\ NoJobs
    /\ \E df \in BOOLEAN : job = [NoJob EXCEPT !.default_fast = df]
    /\ NoThreads /\ NoRuns /\ NoPure

\* a job starts: build_image_editor gives a new NanoBananaEditor its own _CircuitBreaker,
\* built from the same configuration
JobSelect(fast_mode) ==
    /\ job.pc = "idle"
    /\ LET own == pipeline_of(job.default_fast, fast_mode) = "new"
       IN  job' = [job EXCEPT !.pc = "selected", !.fast_mode = fast_mode, !.own = own,
                              !.fresh = IF own
                                        THEN CircuitBreaker(breaker.threshold, breaker.cooldown)
                                        ELSE NoJob.fresh]
    /\ UNCHANGED <<breaker, now, callvars, harnessvars, storevars, streamvars, threads, runs, purevars>>

\* _generate_with_retries, lines 303-304, on the editor the job selected
JobAllow ==
    /\ job.pc = "selected"
    /\ LET a == allow(UsedBreaker, now)
           elapsed == openT # 0 /\ now - openT >= breaker.cooldown
       IN  /\ breaker' = IF job.own THEN breaker ELSE a.self
           /\ job' = [job EXCEPT !.pc = IF a.ret THEN "call" ELSE "idle",
                                  !.fresh = IF job.own THEN a.self ELSE @]
           /\ lastCall' = [NoCall EXCEPT !.op = "allow", !.ret = a.ret, !.at = now]
           /\ runFail' = IF elapsed THEN 0 ELSE runFail
           /\ openT' = IF elapsed THEN 0 ELSE openT
    /\ UNCHANGED <<now, consecFail, callvars, storevars, streamvars, threads, runs, purevars>>

\* an invocation failed, line 314; the call retries or ends
JobFail(again) ==
    /\ job.pc = "call"
    /\ consecFail < MaxFailures /\ UsedBreaker.failures < MaxFailures
    /\ LET b == record_failure(UsedBreaker, now)
       IN  /\ breaker' = IF job.own THEN breaker ELSE b
           /\ job' = [job EXCEPT !.pc = IF again THEN "call" ELSE "idle",
                                  !.fresh = IF job.own THEN b ELSE @]
    /\ lastCall' = [NoCall EXCEPT !.op = "record_failure", !.at = now]
    /\ consecFail' = consecFail + 1
    /\ runFail' = runFail + 1
    /\ openT' = IF breaker.threshold > 0 /\ breaker.cooldown > 0
                   /\ runFail + 1 >= breaker.threshold
                THEN now ELSE openT
    /\ UNCHANGED <<now, callvars, storevars, streamvars, threads, runs, purevars>>

\* an invocation returned, line 310; the call ends
JobSucceed ==
    /\ job.pc = "call"
    /\ LET b == record_success(UsedBreaker)
       IN  /\ breaker' = IF job.own THEN breaker ELSE b
           /\ job' = [job EXCEPT !.pc = "idle", !.fresh = IF job.own THEN b ELSE @]
    /\ lastCall' = [NoCall EXCEPT !.op = "record_success", !.at = now]
    /\ consecFail' = 0 /\ runFail' = 0 /\ openT' = 0
    /\ UNCHANGED <<now, callvars, storevars, streamvars, threads, runs, purevars>>

\* time passes between two jobs
JobWait ==
    /\ job.pc = "idle"
    /\ now < MaxTime
    /\ now' = now + 1
    /\ UNCHANGED <<breaker, callvars, harnessvars, jobvars>>

NextWorker ==
    \/ \E fast_mode \in FastModeArgs : JobSelect(fast_mode)
    \/ JobAllow
    \/ \E again \in BOOLEAN : JobFail(again)
    \/ JobSucceed
    \/ JobWait

WorkerSpec == InitWorker /\ [][NextWorker]_vars

(***************************************************************************)
(* The breaker called by the threads of one process. The methods take no   *)
(* lock: each read and each write of a field is a step of its own, and     *)
(* the interpreter may switch threads between any two of them.             *)
(***************************************************************************)
\* the breakers the threads share
SharedBreakerArgs == {<<2, 6>>, <<3, 6>>}

InitThreads ==
    /\ \E ba \in SharedBreakerArgs : breaker = CircuitBreaker(ba[1], ba[2])
    /\ editor = NanoBananaEditor(60, 2, 1, 8)
    /\ now = 1
    /\ IdleCall
    /\ admitted = [self |-> breaker, open |-> FALSE]
    /\ lastCall = NoCall /\ consecFail = 0 /\ runFail = 0 /\ openT = 0
    /\ NoJobs
    /\ job = NoJob
    /\ NoThreads /\ NoRuns /\ NoPure

\* record_failure() calls completed by all threads
TotalFailed == threads[1].failed + threads[2].failed

othersvars == <<now, callvars, harnessvars, storevars, streamvars, job, runs, purevars>>

\* record_failure, line 126: the read of self._failures += 1
FailureLoad(t) ==
    /\ threads[t].pc = "idle"
    /\ TotalFailed + Cardinality({u \in Threads : threads[u].pc \in
                                     {"failure_loaded", "failure_stored"}}) < MaxFailures
    /\ breaker.threshold # 0
    /\ threads' = [threads EXCEPT ![t].pc = "failure_loaded", ![t].tmp = breaker.failures]
    /\ UNCHANGED <<breaker, othersvars>>

\* record_failure, line 126: the write of self._failures += 1
FailureStore(t) ==
    /\ threads[t].pc = "failure_loaded"
    /\ breaker' = [breaker EXCEPT !.failures = threads[t].tmp + 1]
    /\ threads' = [threads EXCEPT ![t].pc = "failure_stored", ![t].tmp = 0]
    /\ UNCHANGED othersvars

\* record_failure, lines 127-128
FailureOpen(t) ==
    /\ threads[t].pc = "failure_stored"
    /\ breaker' = [breaker EXCEPT !.opened_at =
                      IF breaker.failures >= breaker.threshold /\ breaker.cooldown # 0
                      THEN now ELSE @]
    /\ threads' = [threads EXCEPT ![t].pc = "idle", ![t].failed = @ + 1]
    /\ UNCHANGED othersvars

\* record_success, line 120
SuccessFailures(t) ==
    /\ threads[t].pc = "idle"
    /\ breaker' = [breaker EXCEPT !.failures = 0]
    /\ threads' = [threads EXCEPT ![t].pc = "success_opened_at", ![t].others = TRUE]
    /\ UNCHANGED othersvars

\* record_success, line 121
SuccessOpenedAt(t) ==
    /\ threads[t].pc = "success_opened_at"
    /\ breaker' = [breaker EXCEPT !.opened_at = 0]
    /\ threads' = [threads EXCEPT ![t].pc = "idle"]
    /\ UNCHANGED othersvars

\* allow, lines 109-113 and 117: the tests; the call returns unless the cooldown is over
AllowTest(t) ==
    /\ threads[t].pc = "idle"
    /\ threads' = [threads EXCEPT
                      ![t].pc = IF /\ breaker.threshold # 0 /\ breaker.cooldown # 0
                                   /\ breaker.opened_at # 0
                                   /\ now - breaker.opened_at >= breaker.cooldown
                                THEN "allow_opened_at" ELSE "idle",
                      ![t].others = TRUE]
    /\ UNCHANGED <<breaker, othersvars>>

\* allow, line 114
AllowOpenedAt(t) ==
    /\ threads[t].pc = "allow_opened_at"
    /\ breaker' = [breaker EXCEPT !.opened_at = 0]
    /\ threads' = [threads EXCEPT ![t].pc = "allow_failures"]
    /\ UNCHANGED othersvars

\* allow, lines 115-116
AllowFailures(t) ==
    /\ threads[t].pc = "allow_failures"
    /\ breaker' = [breaker EXCEPT !.failures = 0]
    /\ threads' = [threads EXCEPT ![t].pc = "idle"]
    /\ UNCHANGED othersvars

NextThreads ==
    \/ \E t \in Threads : FailureLoad(t)
    \/ \E t \in Threads : FailureStore(t)
    \/ \E t \in Threads : FailureOpen(t)
    \/ \E t \in Threads : SuccessFailures(t)
    \/ \E t \in Threads : SuccessOpenedAt(t)
    \/ \E t \in Threads : AllowTest(t)
    \/ \E t \in Threads : AllowOpenedAt(t)
    \/ \E t \in Threads : AllowFailures(t)
    \/ Tick

ThreadSpec == InitThreads /\ [][NextThreads]_vars

(***************************************************************************)
(* Jobs run one after another by one worker against a dependency that      *)
(* fails: each job makes one call of _generate_with_retries on the same    *)
(* editor. The editor waits no backoff (base 0) and the operation raises   *)
(* at once, so a call takes no time.                                       *)
(***************************************************************************)
\* runs: per job, the time the first job started, whether this job started less than
\* the cooldown after it, the invocations its call made and how the call ended
\* what the failing dependency does: a 503 (retryable) or a 400 (fatal)
FailingOperations ==
    {op \in Operations : op.does = "raise" /\ op.exc.code \in {400, 503}
                         /\ op.exc.tokens = {}}

\* the loop of _generate_with_retries, lines 306-328, from its n-th retry on: ops are
\* what the coming invocations of call_fn do
RECURSIVE run_attempts(_, _, _, _, _)
run_attempts(b, t, ops, n, ed) ==
    LET r == call_with_timeout(Head(ops), ed.timeout_seconds, FALSE)
        retryable == is_retryable_error(r.exc)
        self == reported(b, breaker_report(r.kind, retryable), t)
        then == IF r.kind = "returned" THEN "return"
                ELSE after_failure(retryable, n, ed.max_retries)
    IN  CASE then = "return" ->
                [outcome |-> Returned, invocations |-> n + 1, self |-> self]
          [] then = "fatal" ->
                [outcome |-> Raised("NanoBananaError", "AI request failed."),
                 invocations |-> n + 1, self |-> self]
          [] then = "exhausted" ->
                [outcome |-> Raised("NanoBananaRetryableError",
                                    "AI generation failed; please retry."),
                 invocations |-> n + 1, self |-> self]
          [] then = "retry" -> run_attempts(self, t, Tail(ops), n + 1, ed)

\* _generate_with_retries, lines 301-328: how the call ends, the number of invocations
\* of call_fn it made and the breaker it leaves
generate_with_retries(b, t, ops, ed) ==
    LET a == allow(b, t)
    IN  IF a.ret THEN run_attempts(a.self, t, ops, 0, ed)
        ELSE [outcome |-> Raised("NanoBananaRetryableError",
                                 "AI temporarily unavailable; please retry."),
              invocations |-> 0, self |-> a.self]

InitSeq ==
    /\ breaker = CircuitBreaker(5, 6)
    /\ \E mr \in MaxRetriesArgs : editor = NanoBananaEditor(-1, mr, -1, 0)
    /\ now = 1
    /\ IdleCall
    /\ admitted = [self |-> breaker, open |-> FALSE]
    /\ lastCall = NoCall /\ consecFail = 0 /\ runFail = 0 /\ openT = 0
    /\ NoJobs
    /\ job = NoJob /\ NoThreads /\ NoRuns /\ NoPure

\* the worker runs the next job: one call on the shared editor
RunJob(ops) ==
    /\ Len(runs) < MaxJobs
    /\ LET res == generate_with_retries(breaker, now, ops, editor)
           first == IF runs = <<>> THEN now ELSE runs[1].first
       IN  /\ breaker' = res.self
           /\ runs' = Append(runs, [first |-> first,
                                    early |-> now - first < breaker.cooldown,
                                    invocations |-> res.invocations,
                                    outcome |-> res.outcome])
    /\ UNCHANGED <<now, callvars, harnessvars, storevars, streamvars, job, threads, purevars>>

\* time passes between two jobs
SeqWait ==
    /\ now < MaxSeqTime
    /\ now' = now + 1
    /\ UNCHANGED <<breaker, callvars, harnessvars, jobvars>>

NextSeq ==
    \/ \E ops \in [1..(editor.max_retries + 1) -> FailingOperations] : RunJob(ops)
    \/ SeqWait

SeqSpec == InitSeq /\ [][NextSeq]_vars

(***************************************************************************)
(* _is_retryable_error applied to the exceptions the SDK may raise.        *)
(***************************************************************************)
\* the status codes an exception may carry as code or status_code (0: none)
StatusCodes == {0, 400, 403, 404, 408, 429, 500, 501, 502, 503, 504, 505}
\* phrases the lower-cased text of an exception may contain
Phrases == {"quota", "timeout", "unavailable", "invalid argument"}

\* the exceptions given to _is_retryable_error
Exceptions ==
    [timeout : BOOLEAN, code : StatusCodes, tokens : SUBSET Phrases]

InitClassify ==
    /\ breaker = CircuitBreaker(5, 60)
    /\ editor = NanoBananaEditor(60, 2, 1, 8)
    /\ now = 1
    /\ IdleCall
    /\ admitted = [self |-> breaker, open |-> FALSE]
    /\ lastCall = NoCall /\ consecFail = 0 /\ runFail = 0 /\ openT = 0
    /\ NoJobs
    /\ job = NoJob /\ NoThreads /\ NoRuns /\ NoPure

\* line 313: _is_retryable_error(exc)
Classify(exc) ==
    /\ classified' = [called |-> TRUE, exc |-> exc, retryable |-> is_retryable_error(exc)]
    /\ UNCHANGED <<breaker, now, callvars, harnessvars, storevars, streamvars, job,
                   threads, runs, backoff, task, projected, sidevars>>

NextClassify == \E exc \in Exceptions : Classify(exc)

ClassifySpec == InitClassify /\ [][NextClassify]_vars

(***************************************************************************)
(* _compute_backoff applied to the editor's backoff settings.              *)
(***************************************************************************)
\* GEMINI_BACKOFF_BASE_SECONDS and GEMINI_BACKOFF_MAX_SECONDS, in ticks
BackoffBaseArgs == {-1, 4, 8}
BackoffMaxArgs == {-1, 4, 8, 16, 32}

InitBackoff ==
    /\ breaker = CircuitBreaker(5, 60)
    /\ \E base \in BackoffBaseArgs, cap \in BackoffMaxArgs :
          editor = NanoBananaEditor(60, MaxAttempt + 1, base, cap)
    /\ now = 1
    /\ IdleCall
    /\ admitted = [self |-> breaker, open |-> FALSE]
    /\ lastCall = NoCall /\ consecFail = 0 /\ runFail = 0 /\ openT = 0
    /\ NoJobs
    /\ job = NoJob /\ NoThreads /\ NoRuns /\ NoPure

\* line 319: delay = _compute_backoff(self._backoff_base, self._backoff_max, retries)
ComputeBackoff(attempt) ==
    /\ \E d \in compute_backoff(editor.backoff_base, editor.backoff_max, attempt) :
          backoff' = [called |-> TRUE, base |-> editor.backoff_base,
                      cap |-> editor.backoff_max, attempt |-> attempt, delay |-> d]
    /\ UNCHANGED <<breaker, now, callvars, harnessvars, storevars, streamvars, job,
                   threads, runs, classified, task, projected, sidevars>>

NextBackoff == \E attempt \in 0..MaxAttempt : ComputeBackoff(attempt)

BackoffSpec == InitBackoff /\ [][NextBackoff]_vars

(***************************************************************************)
(* One run of a task body with what it does to its collaborators: the      *)
(* editor and its breaker, the asset store and the history.                *)
(***************************************************************************)
\* the instruction of a request: empty, blanks only, or a text
Prompts == {"", "  ", " add a hat "}
\* str.strip(), api.py line 288 and tasks.py line 223
strip(prompt) ==
    CASE prompt = "" -> ""
      [] prompt = "  " -> ""
      [] prompt = " add a hat " -> "add a hat"
      [] OTHER -> prompt

\* what the invocations of call_fn do during the run
TaskOperations ==
    {op \in Operations : \/ op.does = "return" /\ op.dur = 0
                         \/ op.does = "raise" /\ op.exc.code \in {400, 503}
                                              /\ op.exc.tokens = {}}

TaskArgs ==
    [session_id : {TRUE}, prompt : Prompts, style_id : BOOLEAN, previous : BOOLEAN,
     upload_asset_id : BOOLEAN]
\* the collaborators of one run of generate_variation_task: ai_available is the
\* editor's available, image whether the response holds an image
VariationTaskEnvs ==
    [services : {"ok", "raise"}, style_found : BOOLEAN, asset_found : BOOLEAN,
     reference_is_file : BOOLEAN, ai_available : BOOLEAN, image : BOOLEAN,
     save : {"ok", "raise"}, history : {"ok", "raise"}]

NoEdit(b) ==
    [bytes |-> FALSE, exc |-> "", type |-> "", response |-> "", edits |-> 0,
     invocations |-> 0, self |-> b]

\* what edit_image makes of the call r of _generate_with_retries
Edited(r, bytes, type, msg) ==
    [bytes |-> bytes, exc |-> msg, type |-> type, response |-> r.outcome.kind,
     edits |-> 1, invocations |-> r.invocations, self |-> r.self]

\* edit_image taking any response for an image
extract_image_any_response(e, r) ==
    IF r.outcome.kind = "raised"
    THEN Edited(r, FALSE, r.outcome.type, r.outcome.msg)
    ELSE Edited(r, TRUE, "", "")

\* edit_image, lines 285-296: the image of the response r, or the error raised
extract_image(e, r) ==
    IF r.outcome.kind = "raised"
    THEN Edited(r, FALSE, r.outcome.type, r.outcome.msg)
    ELSE IF ~e.image
    THEN Edited(r, FALSE, "NanoBananaRetryableError", "AI generation failed; please retry.")
    ELSE Edited(r, TRUE, "", "")

\* NanoBananaEditor.edit_image, lines 177-299
edit_image(e, ops, b, t, ed) ==
    IF ~e.ai_available
    THEN [NoEdit(b) EXCEPT !.exc = "AI unavailable; please retry.",
                           !.type = "NanoBananaRetryableError", !.edits = 1]
    ELSE extract_image(e, generate_with_retries(b, t, ops, ed))

\* the failure of the editor answered by going on to copy the source
checked_fallback(r) == [result |-> "ok", edit |-> r]

\* ImagePipeline.process, lines 83-87: the exception of the editor re-raised as
\* AIProcessingError, and empty bytes raised as a failed generation
checked(r) ==
    IF r.exc # "" THEN [result |-> r.exc, edit |-> r]
    ELSE IF ~r.bytes THEN [result |-> "AI generation failed; please retry.", edit |-> r]
    ELSE [result |-> "ok", edit |-> r]

\* process with the editor called for every instruction, the empty one too
process_always_edits(prompt, e, ops, b, t, ed) ==
    IF ~e.ai_available
    THEN [result |-> "AI unavailable; please retry.", edit |-> NoEdit(b)]
    ELSE checked(edit_image(e, ops, b, t, ed))

\* ImagePipeline.process, lines 49-107: the AIProcessingError it raises, or "ok", and
\* what the editor did
process(prompt, e, ops, b, t, ed) ==
    IF prompt = "" THEN [result |-> "ok", edit |-> NoEdit(b)]
    ELSE IF ~e.ai_available
    THEN [result |-> "AI unavailable; please retry.", edit |-> NoEdit(b)]
    ELSE checked(edit_image(e, ops, b, t, ed))

\* the collaborators as generate_variation_task meets them
VariationEnv(e, pipeline) ==
    [services |-> e.services, style_found |-> e.style_found, asset_found |-> e.asset_found,
     reference_is_file |-> e.reference_is_file, pipeline |-> pipeline,
     save |-> e.save, history |-> e.history]

Succeeds(run) == run.how = "return" /\ ~HasError(run.payload)

\* the arguments with the instruction stripped, tasks.py line 223
stripped(a) == [a EXCEPT !.prompt = strip(a.prompt)]
\* the arguments by which are non-empty
NonEmpty(a) == [a EXCEPT !.prompt = (a.prompt # "")]

\* tasks.py lines 174-218: the body reaches pipeline.process
resolves(a, e) ==
    Succeeds(generate_variation_task(NonEmpty(a),
                                     [VariationEnv(e, "ok") EXCEPT !.save = "ok"]))

\* tasks.py lines 221-229: pipeline.process, when the body reaches it
pipeline_process(a, e, ops, b, t, ed) ==
    IF resolves(a, e) THEN process(a.prompt, e, ops, b, t, ed)
    ELSE [result |-> "ok", edit |-> NoEdit(b)]

\* what a run did: the run of the body, the calls of the editor and of the local
\* transform, the assets saved and the history records appended
Did(run, resolved, prompt, edit, transforms, saved, history) ==
    [run |-> run, resolved |-> resolved, prompt |-> prompt,
     edits |-> edit.edits, invocations |-> edit.invocations, self |-> edit.self,
     response |-> edit.response, raised |-> edit.type,
     transforms |-> IF transforms THEN 1 ELSE 0,
     saved |-> IF saved THEN 1 ELSE 0,
     appended |-> IF saved /\ history = "ok" THEN 1 ELSE 0]

\* tasks.py lines 230-254: save_bytes and add_entry after pipeline.process
variation_effects(a, e, p) ==
    Did(generate_variation_task(NonEmpty(a), VariationEnv(e, p.result)),
        resolves(a, e), a.prompt, p.edit, FALSE,
        resolves(a, e) /\ p.result = "ok" /\ e.save = "ok", e.history)

\* generate_variation_task, lines 174-254, with its effects
run_variation(a, e, ops, b, t, ed) ==
    variation_effects(stripped(a), e, pipeline_process(stripped(a), e, ops, b, t, ed))

\* remove_background_task, lines 264-282: the body reaches remove_background_bytes
transforms(a, e) ==
    a.session_id /\ a.image_id /\ e.services = "ok" /\ e.available /\ e.asset_found

\* remove_background_task, lines 264-304, with its effects: the calls of
\* remove_background_bytes (line 283), the assets saved (lines 287-293) and the history
\* records appended (line 296)
run_background(a, e, b) ==
    Did(remove_background_task(a, e), transforms(a, e), "", NoEdit(b), transforms(a, e),
        transforms(a, e) /\ e.output /\ e.save = "ok", e.history)

\* the breaker of the worker's editor when the job starts: closed, or opened by two
\* failures just before
TaskBreakers ==
    {CircuitBreaker(2, 6), record_failure(record_failure(CircuitBreaker(2, 6), 1), 1)}

InitTask ==
    /\ breaker \in TaskBreakers
    /\ editor = NanoBananaEditor(-1, 1, -1, 0)
    /\ now = 1
    /\ IdleCall
    /\ admitted = [self |-> breaker, open |-> FALSE]
    /\ lastCall = NoCall /\ consecFail = 0 /\ runFail = 0 /\ openT = 0
    /\ NoJobs
    /\ job = NoJob /\ NoThreads /\ NoRuns /\ NoPure

\* one run as the state keeps it: what the remote operation was going to do, what the
\* run did, and what it would have done had the
\* append to the history succeeded
TaskRecord(kind, prompt, e, ops, before, did, appends) ==
    [called |-> TRUE, kind |-> kind, prompt |-> prompt, e |-> e, ops |-> ops,
     before |-> before, did |-> did, appends |-> appends]

\* the worker runs generate_variation_task once
RunVariation(a, e, ops) ==
    /\ NamesSource(a)
    /\ task' = TaskRecord("variation", a.prompt, e, ops, breaker,
                          run_variation(a, e, ops, breaker, now, editor),
                          run_variation(a, [e EXCEPT !.history = "ok"], ops, breaker, now,
                                        editor))
    /\ breaker' = task'.did.self
    /\ UNCHANGED <<now, callvars, harnessvars, storevars, streamvars, job, threads, runs,
                   classified, backoff, projected, sidevars>>

\* the worker runs remove_background_task once
RunBackground(a, e) ==
    /\ task' = TaskRecord("background_removal", "", e, <<>>, breaker,
                          run_background(a, e, breaker),
                          run_background(a, [e EXCEPT !.history = "ok"], breaker))
    /\ UNCHANGED <<breaker, now, callvars, harnessvars, storevars, streamvars, job,
                   threads, runs, classified, backoff, projected, sidevars>>

\* one job: Init is the state the job finds, the step is its run
VariationJob ==
    /\ ~task.called
    /\ \E a \in TaskArgs, e \in VariationTaskEnvs,
          ops \in [1..(editor.max_retries + 1) -> TaskOperations] : RunVariation(a, e, ops)

BackgroundJob ==
    /\ ~task.called
    /\ \E a \in BackgroundArgs, e \in BackgroundEnvs : RunBackground(a, e)

NextTask == VariationJob \/ BackgroundJob

TaskSpec == InitTask /\ [][NextTask]_vars

(***************************************************************************)
(* _build_job_payload applied to the task metas a result backend may hold. *)
(***************************************************************************)
\* the states AsyncResult.state may read: the six mapped ones, states of Celery outside
\* them, a lower-case spelling and the empty state
QueueStates ==
    {"PENDING", "RECEIVED", "STARTED", "RETRY", "SUCCESS", "FAILURE", "REVOKED",
     "REJECTED", "IGNORED", "success", ""}

\* the task metas: a finished task holds what its body returned or raised
QueueMetas ==
    {[status |-> st] : st \in QueueStates \ {"SUCCESS", "success", "FAILURE"}}
    \cup {[status |-> st, result |-> run.payload] :
            st \in {"SUCCESS", "success"},
            run \in {r \in VariationRuns \cup BackgroundRuns : r.how = "return"}}
    \cup {[status |-> "FAILURE", result |-> run.exc] :
            run \in {r \in VariationRuns \cup BackgroundRuns : r.how = "raise"}}

InitProject ==
    /\ breaker = CircuitBreaker(5, 60)
    /\ editor = NanoBananaEditor(60, 2, 1, 8)
    /\ now = 1
    /\ IdleCall
    /\ admitted = [self |-> breaker, open |-> FALSE]
    /\ lastCall = NoCall /\ consecFail = 0 /\ runFail = 0 /\ openT = 0
    /\ NoJobs
    /\ job = NoJob /\ NoThreads /\ NoRuns /\ NoPure

\* job_status, lines 121-123: the payload of the meta the backend holds for job_id
Project(j, meta) ==
    /\ projected' = [projected EXCEPT ![j] =
          [called |-> TRUE, state |-> meta.status,
           status |-> _map_task_status(meta.status),
           meta |-> meta, payload |-> build_job_payload(j, meta)]]
    /\ UNCHANGED <<breaker, now, callvars, harnessvars, storevars, streamvars, job,
                   threads, runs, classified, backoff, task, sidevars>>

NextProject == \E j \in JobIds, meta \in QueueMetas : Project(j, meta)

ProjectSpec == InitProject /\ [][NextProject]_vars

(***************************************************************************)
(* The two queues: task_routes of create_celery_app and the worker pools   *)
(* that consume them. The pools are not started by the code of src/: one   *)
(* pool per kind of job, each consuming the queue of its kind, is what the *)
(* specification describes.                                                *)
(***************************************************************************)
Kinds == {"variation", "background_removal"}
\* CELERY_QUEUE_GENERATION and CELERY_QUEUE_BG_REMOVE: the defaults, or one name for both
QueueNameArgs == {<<"ivg_generate", "ivg_bg">>, <<"ivg", "ivg">>}
\* celery_app.py lines 29-30
QueueNames(env) == [DEFAULT_QUEUE |-> env[1], BG_QUEUE |-> env[2]]

\* the name a task is registered under, tasks.py lines 163 and 257
task_name(kind) ==
    IF kind = "variation" THEN "ivg.generate_variation" ELSE "ivg.remove_background"

\* every task sent to the default queue
task_routes_default_only(names, name) == names.DEFAULT_QUEUE

\* task_routes, celery_app.py lines 54-58
task_routes(names, name) ==
    IF name = "ivg.generate_variation" THEN names.DEFAULT_QUEUE
    ELSE IF name = "ivg.remove_background" THEN names.BG_QUEUE
    ELSE names.DEFAULT_QUEUE

\* the queue the pool of a kind consumes
consumes(names, kind) ==
    IF kind = "variation" THEN names.DEFAULT_QUEUE ELSE names.BG_QUEUE

Sent == 1..MaxSent
FreePool == [job |-> 0, hung |-> FALSE]

InitQueue ==
    /\ breaker = CircuitBreaker(5, 60)
    /\ editor = NanoBananaEditor(60, 2, 1, 8)
    /\ now = 1
    /\ IdleCall
    /\ admitted = [self |-> breaker, open |-> FALSE]
    /\ lastCall = NoCall /\ consecFail = 0 /\ runFail = 0 /\ openT = 0
    /\ NoJobs
    /\ job = NoJob /\ NoThreads /\ NoRuns
    /\ classified = [called |-> FALSE]
    /\ backoff = [called |-> FALSE]
    /\ task = [called |-> FALSE]
    /\ projected = [j \in {1, 2} |-> [called |-> FALSE]]
    /\ hist = [clock |-> 0]
    /\ \E env \in QueueNameArgs :
          broker = [sent |-> 0, names |-> QueueNames(env),
                    queue |-> [n \in {env[1], env[2]} |-> <<>>],
                    kind |-> [j \in Sent |-> ""],
                    phase |-> [j \in Sent |-> "none"],
                    by |-> [j \in Sent |-> ""],
                    pool |-> [k \in Kinds |-> FreePool]]

queueothers ==
    <<breaker, now, callvars, harnessvars, storevars, streamvars, job, threads, runs,
      classified, backoff, task, projected, hist>>

\* delay(): the task is sent to the queue task_routes names for it
Send(kind) ==
    /\ broker.sent < MaxSent
    /\ LET j == broker.sent + 1
           n == task_routes(broker.names, task_name(kind))
       IN  broker' = [broker EXCEPT !.sent = j,
                                     !.queue[n] = Append(@, j),
                                     !.kind[j] = kind,
                                     !.phase[j] = "pending"]
    /\ UNCHANGED queueothers

\* a free worker of the pool of kind k takes the oldest job of the queue it consumes
PoolStart(k) ==
    /\ broker.sent > 0
    /\ broker.pool[k].job = 0
    /\ broker.queue[consumes(broker.names, k)] # <<>>
    /\ LET n == consumes(broker.names, k)
           j == Head(broker.queue[n])
       IN  broker' = [broker EXCEPT !.queue[n] = Tail(@),
                                     !.phase[j] = "started",
                                     !.by[j] = k,
                                     !.pool[k] = [job |-> j, hung |-> FALSE]]
    /\ UNCHANGED queueothers

\* the body of the running job ends and the worker is free again
PoolFinish(k) ==
    /\ broker.sent > 0
    /\ broker.pool[k].job # 0 /\ ~broker.pool[k].hung
    /\ broker' = [broker EXCEPT !.phase[broker.pool[k].job] = "done",
                                 !.pool[k] = FreePool]
    /\ UNCHANGED queueothers

\* the body of the running job never ends: its worker stays taken
PoolHang(k) ==
    /\ broker.sent > 0
    /\ broker.pool[k].job # 0 /\ ~broker.pool[k].hung
    /\ broker' = [broker EXCEPT !.pool[k].hung = TRUE]
    /\ UNCHANGED queueothers

NextQueue ==
    \/ \E kind \in Kinds : Send(kind)
    \/ \E k \in Kinds : PoolStart(k)
    \/ \E k \in Kinds : PoolFinish(k)
    \/ \E k \in Kinds : PoolHang(k)

\* a free worker takes a waiting job, and a body that does not hang ends
QueueSpec ==
    /\ InitQueue /\ [][NextQueue]_vars
    /\ \A k \in Kinds : WF_vars(PoolStart(k)) /\ WF_vars(PoolFinish(k))

(***************************************************************************)
(* GenerationHistoryStore and the part of a task body that writes to it:   *)
(* save_bytes, then add_entry. created_at is NOW() at the insert; inserts  *)
(* are taken to get distinct, increasing times.                            *)
(***************************************************************************)
Sessions == {"s1", "s2"}
\* history.py line 17, scaled down
DEFAULT_HISTORY_LIMIT == 2
\* the limit of GET /history: 0 stands for None, else limit >= 1
LimitArgs == {0, 1, 2, 3}

Mine(rows, session_id) == {r \in rows : r.session_id = session_id}

\* ORDER BY created_at ASC
RECURSIVE ascending(_)
ascending(rows) ==
    IF rows = {} THEN <<>>
    ELSE LET first == CHOOSE r \in rows : \A o \in rows : r.created_at <= o.created_at
         IN  <<first>> \o ascending(rows \ {first})

\* ORDER BY created_at DESC OFFSET n: the rows with n or more newer ones
beyond(rows, n) ==
    {r \in rows : Cardinality({o \in rows : o.created_at > r.created_at}) >= n}

\* GenerationHistoryStore.add_entry, lines 59-87: the table after the insert and the
\* delete; delivery is the job whose body made the entry
add_entry(rows, created_at, session_id, result_id, delivery, max_entries) ==
    LET inserted == rows \cup {[id |-> created_at, session_id |-> session_id,
                                result_id |-> result_id, created_at |-> created_at,
                                job |-> delivery]}
    IN  IF max_entries > 0
        THEN inserted \ beyond(Mine(inserted, session_id), max_entries)
        ELSE inserted

\* GenerationHistoryStore.list_entries, lines 89-113: ORDER BY created_at ASC LIMIT
list_entries(rows, session_id, limit, max_entries) ==
    LET fetch_limit == IF limit = 0 THEN max_entries ELSE limit
        sorted == ascending(Mine(rows, session_id))
    IN  SubSeq(sorted, 1, Min(fetch_limit, Len(sorted)))

Deliveries == 1..MaxDelivered

InitHistory ==
    /\ breaker = CircuitBreaker(5, 60)
    /\ editor = NanoBananaEditor(60, 2, 1, 8)
    /\ now = 1
    /\ IdleCall
    /\ admitted = [self |-> breaker, open |-> FALSE]
    /\ lastCall = NoCall /\ consecFail = 0 /\ runFail = 0 /\ openT = 0
    /\ NoJobs
    /\ job = NoJob /\ NoThreads /\ NoRuns
    /\ classified = [called |-> FALSE]
    /\ backoff = [called |-> FALSE]
    /\ task = [called |-> FALSE]
    /\ projected = [j \in {1, 2} |-> [called |-> FALSE]]
    /\ broker = [sent |-> 0]
    /\ hist = [clock |-> 0, rows |-> {}, assets |-> {},
               session |-> [j \in Deliveries |-> ""],
               executed |-> [j \in Deliveries |-> 0],
               listed |-> [called |-> FALSE]]

histothers ==
    <<breaker, now, callvars, harnessvars, storevars, streamvars, job, threads, runs,
      classified, backoff, task, projected, broker>>

\* tasks.py lines 230-245 and 287-298: save_bytes stores the output under a fresh id
\* and add_entry records it
body(h, j, session_id) ==
    LET t == h.clock + 1
    IN  [h EXCEPT !.clock = t,
                  !.assets = @ \cup {[id |-> t, session_id |-> session_id, job |-> j]},
                  !.rows = add_entry(@, t, session_id, t, j, DEFAULT_HISTORY_LIMIT),
                  !.session[j] = session_id,
                  !.executed[j] = @ + 1]

\* a worker executes the body of job j
Execute(j, session_id) ==
    /\ hist.executed[j] = 0
    /\ \A i \in Deliveries : i < j => hist.executed[i] > 0
    /\ hist' = body(hist, j, session_id)
    /\ UNCHANGED histothers

\* the worker died after the body and before the acknowledgement: the queue delivers
\* job j again and the body runs a second time
Redeliver(j) ==
    /\ hist.executed[j] = 1
    /\ hist' = body(hist, j, hist.session[j])
    /\ UNCHANGED histothers

\* list_history, api.py lines 210-227
ListHistory(session_id, limit) ==
    /\ hist.clock > 0
    /\ hist' = [hist EXCEPT !.listed =
          [called |-> TRUE, session_id |-> session_id, limit |-> limit,
           held |-> Mine(hist.rows, session_id),
           entries |-> list_entries(hist.rows, session_id, limit, DEFAULT_HISTORY_LIMIT)]]
    /\ UNCHANGED histothers

NextHistory ==
    \/ \E j \in Deliveries, session_id \in Sessions : Execute(j, session_id)
    \/ \E j \in Deliveries : Redeliver(j)
    \/ \E session_id \in Sessions, limit \in LimitArgs : ListHistory(session_id, limit)

HistorySpec == InitHistory /\ [][NextHistory]_vars

(***************************************************************************)
(* C3: with threshold > 0 and cooldown > 0, the threshold-th consecutive   *)
(* record_failure() opens the breaker at the time of that call, and once   *)
(* threshold consecutive failures have been recorded with no               *)
(* record_success() in between, an allow() made less than cooldown after   *)
(* the last failure that opened the breaker returns false.                 *)
(***************************************************************************)
C3_OpenBreakerRejects ==
    (breaker.threshold > 0 /\ breaker.cooldown > 0) =>
        /\ (lastCall.op = "record_failure" /\ consecFail = breaker.threshold)
               => (breaker.opened_at = lastCall.at /\ openT = lastCall.at)
        /\ (/\ lastCall.op = "allow"
            /\ consecFail >= breaker.threshold
            /\ openT # 0
            /\ lastCall.at - openT < breaker.cooldown)
               => lastCall.ret = FALSE

\* an allow() rejected some time after threshold consecutive failures opened the breaker
C3_Witness ==
    /\ breaker.threshold > 1 /\ breaker.cooldown > 0
    /\ lastCall.op = "allow" /\ lastCall.ret = FALSE
    /\ consecFail >= breaker.threshold
    /\ lastCall.at > openT

(***************************************************************************)
(* Claims about the resilient call, checked under CallSpec.                *)
(***************************************************************************)
Unavailable == Raised("NanoBananaRetryableError", "AI temporarily unavailable; please retry.")
Exhausted == Raised("NanoBananaRetryableError", "AI generation failed; please retry.")
Fatal == Raised("NanoBananaError", "AI request failed.")

RetryableFailure(a) == a.result = "raised" /\ a.retryable
AllRetryableFailures(s) == \A i \in 1..Len(s) : RetryableFailure(s[i])

(***************************************************************************)
(* C1: with a timeout > 0, a call whose operation never returns is not     *)
(* blocked by it: the worker is never left waiting for the operation after *)
(* the timeout has expired.                                                *)
(***************************************************************************)
C1_HungOperationAbandoned ==
    editor.timeout_seconds > 0 => pc # "blocked"

(***************************************************************************)
(* C4: a call started while the breaker is open ends with the 'temporarily *)
(* unavailable' error, with no invocation of the remote operation, no      *)
(* backoff wait and the breaker left exactly as it was.                    *)
(***************************************************************************)
C4_OpenBreakerFailsFast ==
    (calls > 0 /\ admitted.open) =>
        /\ outcome = Unavailable
        /\ pc = "idle"
        /\ attempts = <<>> /\ sleeps = <<>> /\ reports = <<>>
        /\ breaker.failures = admitted.self.failures
        /\ breaker.opened_at = admitted.self.opened_at

\* a second call rejected by the breaker the first call's failures opened
C4_Witness ==
    /\ calls = 2 /\ admitted.open
    /\ outcome = Unavailable
    /\ breaker.failures >= breaker.threshold

(***************************************************************************)
(* C5 as stated: one call invokes the remote operation at most max_retries *)
(* times, the first attempt included (stated for max_retries > 0, where a  *)
(* first attempt is not already one too many).                             *)
(***************************************************************************)
C5_AtMostMaxRetriesInvocations ==
    editor.max_retries > 0 => Len(attempts) <= editor.max_retries

(***************************************************************************)
(* C5 amended: one call invokes the remote operation at most               *)
(* max_retries + 1 times: the first attempt and at most max_retries        *)
(* retries.                                                                *)
(***************************************************************************)
C5_AtMostMaxRetriesPlusOne ==
    /\ Len(attempts) <= editor.max_retries + 1
    /\ retries <= editor.max_retries

\* an operation that always failed with a retryable error used the whole budget
C5_Witness ==
    /\ editor.max_retries = 2
    /\ Len(attempts) = 3 /\ AllRetryableFailures(attempts)
    /\ outcome = Exhausted /\ pc = "idle"

(***************************************************************************)
(* C6: when the operation fails with a retryable error max_retries times   *)
(* and then succeeds, the call goes on until that success and returns it,  *)
(* having slept one backoff delay before each of the max_retries retries   *)
(* and none after the success.                                             *)
(***************************************************************************)
C6_SucceedsAfterMaxRetries ==
    /\ (/\ attempts # <<>>
        /\ Len(attempts) <= editor.max_retries
        /\ AllRetryableFailures(attempts))
           => /\ pc \in {"sleep", "attempt"}
              /\ outcome = Running
    /\ (/\ Len(attempts) = editor.max_retries + 1
        /\ AllRetryableFailures(SubSeq(attempts, 1, editor.max_retries))
        /\ attempts[Len(attempts)].result = "returned")
           => /\ outcome = Returned /\ pc = "idle"
              /\ Len(sleeps) = editor.max_retries
              /\ \A i \in 1..Len(sleeps) :
                    sleeps[i] \in compute_backoff(editor.backoff_base,
                                                  editor.backoff_max, i - 1)

\* two retryable failures, two backoff waits, then the success is returned
C6_Witness ==
    /\ editor.max_retries = 2 /\ editor.backoff_base > 0
    /\ Len(attempts) = 3
    /\ AllRetryableFailures(SubSeq(attempts, 1, 2))
    /\ attempts[3].result = "returned"
    /\ outcome = Returned
    /\ Len(sleeps) = 2 /\ sleeps[1] > 0 /\ sleeps[2] > sleeps[1]

(***************************************************************************)
(* C7: when the first attempt fails with a non-retryable error the call    *)
(* raises the fatal failure after exactly one invocation and no backoff    *)
(* wait, whatever max_retries is.                                          *)
(***************************************************************************)
C7_FatalAbortsAtOnce ==
    (attempts # <<>> /\ attempts[1].result = "raised" /\ ~attempts[1].retryable) =>
        /\ Len(attempts) = 1
        /\ sleeps = <<>>
        /\ outcome = Fatal
        /\ pc = "idle"

\* a fatal first failure with retries still available
C7_Witness ==
    /\ editor.max_retries = 2
    /\ Len(attempts) = 1 /\ attempts[1].result = "raised" /\ ~attempts[1].retryable
    /\ outcome = Fatal

(***************************************************************************)
(* C8: every invocation of the remote operation that returned, raised or   *)
(* timed out is followed by exactly one report to the breaker before the   *)
(* next attempt or the end of the call: record_success() when it returned, *)
(* record_failure() when it raised or timed out, retryable or fatal, first *)
(* attempt or retry.                                                       *)
(***************************************************************************)
Completed(s) == IF pc = "blocked" THEN SubSeq(s, 1, Len(s) - 1) ELSE s

C8_OneReportPerInvocation ==
    /\ Len(reports) = Len(Completed(attempts))
    /\ \A i \in 1..Len(reports) :
          reports[i] = IF attempts[i].result = "returned" THEN "success" ELSE "failure"

\* a call with a retried failure, then a fatal one, both reported as failures
C8_Witness ==
    /\ Len(attempts) = 2
    /\ RetryableFailure(attempts[1])
    /\ attempts[2].result = "raised" /\ ~attempts[2].retryable
    /\ reports = <<"failure", "failure">>
    /\ breaker.threshold > 0 /\ breaker.failures = admitted.self.failures + 2

(***************************************************************************)
(* Claims about the jobs and their status, checked under JobSpec.          *)
(***************************************************************************)
Submitted(j) == request[j].code = 202

(***************************************************************************)
(* C2: for every job id, the statuses successive polls return only move    *)
(* forward in the order pending, processing, then complete or failed, and  *)
(* once complete or failed has been returned every later poll returns the  *)
(* same status: the last status returned is the furthest one returned.     *)
(***************************************************************************)
C2_StatusOnlyMovesForward ==
    \A j \in JobIds : Submitted(j) => obs[j].status = best[j]

(***************************************************************************)
(* C9: an exception raised by the body of a task is never raised back to   *)
(* the submitting request, in every queue configuration, and ends as a     *)
(* job stored as failed with the message of the exception and projected    *)
(* as failed with that message.                                            *)
(***************************************************************************)
C9_BodyExceptionBecomesFailedJob ==
    \A j \in JobIds :
        raised[j] # "" =>
            /\ request[j].phase # "raised"
            /\ Submitted(j)
            /\ backend[j] # NoMeta =>
                  /\ backend[j].status = "FAILURE"
                  /\ build_job_payload(j, backend[j]) =
                        [job_id |-> j, status |-> "failed", error |-> raised[j]]

(***************************************************************************)
(* C10: every payload _build_job_payload produces has a result and no      *)
(* error when its status is complete, an error and no result when its      *)
(* status is failed, and neither when its status is pending or processing. *)
(***************************************************************************)
WellFormed(payload) ==
    LET has_result == "result" \in DOMAIN payload
        has_error == "error" \in DOMAIN payload
    IN  CASE payload.status = "complete" -> has_result /\ ~has_error
          [] payload.status = "failed" -> has_error /\ ~has_result
          [] payload.status \in {"pending", "processing"} -> ~has_result /\ ~has_error
          [] OTHER -> payload = Unobserved

C10_PayloadCarriesResultXorError ==
    \A j \in JobIds :
        /\ WellFormed(obs[j])
        /\ WellFormed(build_job_payload(j, backend[j]))

\* one job polled as complete, the other polled as failed for a payload with an error
\* the task returned
C10_Witness ==
    /\ obs[1].status = "complete" /\ backend[1].status = "SUCCESS"
    /\ obs[2].status = "failed" /\ backend[2].status = "SUCCESS"

(***************************************************************************)
(* Claims about the status stream, checked under StreamSpec.               *)
(***************************************************************************)
TerminalStatus(status) == status \in {"complete", "failed"}
LastEvent == events[Len(events)]
TerminalEmitted == events # <<>> /\ TerminalStatus(StatusOf(LastEvent))
\* the stream left its loop through the break of line 177
ClosedByTerminal == stream.pc = "closed" /\ stream.connected
\* the backend dropped the result of a job that had finished
Forgotten(j) == request[j].phase = "done" /\ backend[j] = NoMeta

(***************************************************************************)
(* C11: once an event with status complete or failed has been emitted the  *)
(* stream has left its loop: the terminal event is the last one, and no    *)
(* later step polls the job or emits an event.                             *)
(***************************************************************************)
C11_NothingAfterTerminalEvent ==
    /\ [](TerminalEmitted => stream.pc = "closed")
    /\ [](\A i \in 1..(Len(events) - 1) : ~TerminalStatus(StatusOf(events[i])))
    /\ [][TerminalEmitted => UNCHANGED <<stream, events>>]_vars

\* a stream that ended with the failed event after pending and processing
C11_Witness ==
    /\ Len(events) = 3 /\ StatusOf(LastEvent) = "failed"
    /\ stream.pc = "closed"

(***************************************************************************)
(* C12: when the client stays connected and the job's state is terminal    *)
(* from some point on, the stream eventually ends with the terminal event  *)
(* as its last event; a stream that left its loop on a terminal status has *)
(* always emitted that terminal payload, changed or not.                   *)
(***************************************************************************)
C12_TerminalEventEmitted ==
    /\ [](ClosedByTerminal =>
             /\ TerminalEmitted
             /\ LastEvent = json_dumps(stream.payload))
    /\ (<>[](/\ stream.pc # "none" /\ stream.connected
             /\ is_terminal(build_job_payload(stream.job_id, backend[stream.job_id]))))
           => <>(ClosedByTerminal /\ TerminalEmitted)

\* a stream whose first poll was pending and whose second was complete
C12_Witness ==
    /\ ClosedByTerminal
    /\ Len(events) = 2
    /\ StatusOf(events[1]) = "pending" /\ StatusOf(events[2]) = "complete"

(***************************************************************************)
(* C13: for a streamed job whose result is still stored, no two            *)
(* consecutive events are equal and the statuses of the events strictly    *)
(* advance in the order pending, processing, terminal, so that each status *)
(* is emitted at most once; when the job succeeded the statuses are among  *)
(* pending, processing, complete and the stream ends on complete.          *)
(***************************************************************************)
C13_OneEventPerStatus ==
    (stream.pc # "none" /\ ~Forgotten(stream.job_id)) =>
        /\ \A i \in 1..(Len(events) - 1) :
              /\ events[i] # events[i + 1]
              /\ Rank(StatusOf(events[i])) < Rank(StatusOf(events[i + 1]))
        /\ LET meta == backend[stream.job_id]
           IN  (meta.status = "SUCCESS" /\ ~HasError(meta.result)) =>
                  /\ \A i \in 1..Len(events) :
                        StatusOf(events[i]) \in {"pending", "processing", "complete"}
                  /\ ClosedByTerminal => StatusOf(LastEvent) = "complete"

\* the three statuses of a successful job, each emitted once
C13_Witness ==
    /\ ClosedByTerminal
    /\ Len(events) = 3
    /\ StatusOf(events[1]) = "pending" /\ StatusOf(events[2]) = "processing"
    /\ StatusOf(events[3]) = "complete"
    /\ backend[stream.job_id].status = "SUCCESS"

(***************************************************************************)
(* C14: a status query for a job id that no submission returned signals    *)
(* NotFound: it reports none of the statuses of a job.                     *)
(***************************************************************************)
C14_UnknownIdSignalsNotFound ==
    \A j \in JobIds :
        (~Submitted(j) /\ obs[j] # Unobserved) =>
            obs[j].status \notin {"pending", "processing", "complete", "failed"}

(***************************************************************************)
(* C15: in every configuration, the step in which a submission answers     *)
(* with a job id leaves the job queued, its body not yet run, and the job  *)
(* is observed as pending under that id.                                   *)
(***************************************************************************)
C15_SubmissionReturnsBeforeExecution ==
    [][\A j \in JobIds :
          (request[j].code # 202 /\ request'[j].code = 202) =>
              /\ request'[j].phase = "queued"
              /\ build_job_payload(j, backend'[j]).status = "pending"]_vars

(***************************************************************************)
(* C16: the failures of one job's call are seen by allow() at the start of *)
(* every later job's call, whatever the jobs' fast_mode flags: once        *)
(* threshold failures were recorded by the worker's jobs with no success   *)
(* in between, the allow() of a job that starts less than cooldown after   *)
(* the failure that opened the breaker returns false.                      *)
(***************************************************************************)
C16_FailuresSeenByLaterJobs ==
    (/\ breaker.threshold > 0 /\ breaker.cooldown > 0
     /\ lastCall.op = "allow"
     /\ consecFail >= breaker.threshold
     /\ openT # 0
     /\ lastCall.at - openT < breaker.cooldown)
        => lastCall.ret = FALSE

(***************************************************************************)
(* C17: the calls of concurrent threads take effect as if made one at a    *)
(* time: when no thread is inside a method and only record_failure() was   *)
(* ever called, the counter is the number of record_failure() calls made,  *)
(* and the breaker is opened once that number has reached the threshold.   *)
(***************************************************************************)
C17_ConcurrentFailuresAllCounted ==
    (\A t \in Threads : threads[t].pc = "idle" /\ ~threads[t].others) =>
        /\ breaker.failures = TotalFailed
        /\ (TotalFailed >= breaker.threshold) => breaker.opened_at # 0

(***************************************************************************)
(* C18: a call admitted by an opened breaker whose cooldown has elapsed is *)
(* a probe whose outcome decides the next state: when the probe call has   *)
(* failed the breaker is open again, when it has returned the breaker is   *)
(* closed.                                                                 *)
(***************************************************************************)
ProbeCall ==
    /\ calls > 0
    /\ admitted.self.threshold > 0 /\ admitted.self.cooldown > 0
    /\ admitted.self.opened_at # 0 /\ ~admitted.open

C18_ProbeOutcomeDecides ==
    (ProbeCall /\ pc = "idle") =>
        /\ outcome.kind = "raised" => breaker.opened_at # 0
        /\ outcome = Returned => (breaker.opened_at = 0 /\ breaker.failures = 0)

(***************************************************************************)
(* C19: right after record_success() the failure counter is 0 and the      *)
(* breaker is closed: allow() returns true now and at any later time, and  *)
(* changes nothing, whatever was recorded before and whether or not the    *)
(* breaker was open.                                                       *)
(***************************************************************************)
C19_SuccessClosesBreaker ==
    lastCall.op = "record_success" =>
        /\ breaker.failures = 0 /\ breaker.opened_at = 0
        /\ \A t \in now..MaxTime :
              allow(breaker, t) = [ret |-> TRUE, self |-> breaker]

\* record_success() on a breaker that was open, with more failures than the threshold
C19_Witness ==
    /\ lastCall.op = "record_success"
    /\ IsOpen(lastCall.before, lastCall.at)
    /\ lastCall.before.failures > lastCall.before.threshold
    /\ breaker.failures = 0

(***************************************************************************)
(* C20: for an enabled breaker, allow() returns false exactly when         *)
(* opened_at is set and less than cooldown has elapsed since opened_at,    *)
(* and then changes nothing; an allow() at or after the cooldown returns   *)
(* true and leaves the counter at 0 and opened_at unset.                   *)
(***************************************************************************)
C20_AllowRejectsIffCoolingDown ==
    LET b == lastCall.before
    IN  (lastCall.op = "allow" /\ b.threshold > 0 /\ b.cooldown > 0) =>
            /\ lastCall.ret = FALSE <=>
                  (b.opened_at # 0 /\ lastCall.at - b.opened_at < b.cooldown)
            /\ lastCall.ret = FALSE => breaker = b
            /\ (b.opened_at # 0 /\ lastCall.at - b.opened_at >= b.cooldown) =>
                  /\ lastCall.ret = TRUE
                  /\ breaker.failures = 0 /\ breaker.opened_at = 0

\* an allow() made at the very instant the cooldown elapsed, with no reset in between
C20_Witness ==
    /\ lastCall.op = "allow" /\ lastCall.ret = TRUE
    /\ lastCall.before.opened_at # 0
    /\ lastCall.at - lastCall.before.opened_at = lastCall.before.cooldown
    /\ lastCall.before.failures >= lastCall.before.threshold
    /\ breaker.failures = 0 /\ breaker.opened_at = 0

(***************************************************************************)
(* Claims about jobs run one after another, checked under SeqSpec.         *)
(***************************************************************************)
RECURSIVE Invocations(_)
\* the invocations of the remote operation the jobs of a log made
Invocations(log) ==
    IF log = <<>> THEN 0 ELSE log[1].invocations + Invocations(Tail(log))

\* job i started less than the cooldown after the first job: no cooldown has elapsed
BeforeCooldown(i) == runs[i].early

Rejected(run) ==
    /\ run.invocations = 0
    /\ run.outcome = Raised("NanoBananaRetryableError",
                            "AI temporarily unavailable; please retry.")

AlwaysRetryableCall ==
    /\ calls > 0 /\ pc = "idle"
    /\ editor.max_retries = 2
    /\ admitted.self.threshold > 0 /\ admitted.self.opened_at = 0
    /\ attempts # <<>> /\ AllRetryableFailures(attempts)

(***************************************************************************)
(* C22 as stated: after that call the breaker's failure counter is exactly *)
(* 1 higher than before it.                                                *)
(***************************************************************************)
C22_CounterOneHigher ==
    AlwaysRetryableCall => breaker.failures = admitted.self.failures + 1

(***************************************************************************)
(* C22 amended: that call makes three invocations, ends with the           *)
(* exhausted-retries error, and leaves the failure counter exactly 3       *)
(* higher than before it: one for each failed invocation.                  *)
(***************************************************************************)
C22_CounterThreeHigher ==
    AlwaysRetryableCall =>
        /\ Len(attempts) = 3
        /\ outcome = Exhausted
        /\ breaker.failures = admitted.self.failures + 3

\* the three failures of one call opened a breaker of threshold 3
C22_Witness ==
    /\ AlwaysRetryableCall
    /\ calls = 1 /\ breaker.threshold = 3
    /\ breaker.failures = 3 /\ breaker.opened_at # 0

(***************************************************************************)
(* C23: _is_retryable_error classifies by the kind of the error: an error  *)
(* with a 5xx status code is retryable, and an error with a 4xx status     *)
(* code other than 429 that is no timeout is fatal whatever its text.      *)
(***************************************************************************)
C23_ClassifiedByKind ==
    classified.called =>
        /\ classified.exc.code \in 500..599 => classified.retryable
        /\ (classified.exc.code \in 400..499 /\ classified.exc.code # 429
            /\ ~classified.exc.timeout) => ~classified.retryable

(***************************************************************************)
(* C24: a call that has ended ended in exactly one of four outcomes: it    *)
(* returned, it was refused by the open breaker without an attempt, it ran *)
(* out of retries on retryable errors, or it met a non-retryable error;    *)
(* the errors of the three failures differ from one another.               *)
(***************************************************************************)
Ended == pc = "idle" /\ calls > 0
RanOutOfRetries == Ended /\ attempts # <<>> /\ AllRetryableFailures(attempts)

C24_OneOfFourOutcomes ==
    /\ Unavailable # Exhausted /\ Unavailable # Fatal /\ Exhausted # Fatal
    /\ Ended =>
        /\ outcome \in {Returned, Unavailable, Exhausted, Fatal}
        /\ outcome = Returned <=>
               (attempts # <<>> /\ attempts[Len(attempts)].result = "returned")
        /\ outcome = Unavailable <=> attempts = <<>>
        /\ outcome = Exhausted <=> RanOutOfRetries
        /\ outcome = Fatal <=>
               (/\ attempts # <<>>
                /\ attempts[Len(attempts)].result = "raised"
                /\ ~attempts[Len(attempts)].retryable)

(***************************************************************************)
(* C24: the error of a call that ran out of retries says that the retries  *)
(* were exhausted.                                                         *)
(***************************************************************************)
C24_ExhaustedErrorSaysSo ==
    RanOutOfRetries =>
        /\ outcome.kind = "raised"
        /\ \E phrase \in says(outcome.msg) : phrase \in {"retries exhausted", "exhausted"}

(***************************************************************************)
(* C25: the wait before retry number k is min(backoff_base * 2^k,          *)
(* backoff_cap) times a jitter factor in [0.75, 1.25]: never below 0.75    *)
(* times and never above 1.25 times that capped value, which never         *)
(* exceeds backoff_cap.                                                    *)
(***************************************************************************)
CappedValue(base, cap, k) == Min(base * 2^k, cap)
WithinJitter(d, value) == 75 * value <= 100 * d /\ 100 * d <= 125 * value

C25_WaitIsCappedValueTimesJitter ==
    backoff.called =>
        /\ WithinJitter(backoff.delay, CappedValue(backoff.base, backoff.cap, backoff.attempt))
        /\ 100 * backoff.delay <= 125 * backoff.cap

(***************************************************************************)
(* C25, amended: with backoff_cap > 0 the wait before retry number k is    *)
(* min(backoff_base * 2^k, backoff_cap) times a jitter factor in           *)
(* [0.75, 1.25], the capped value never exceeds backoff_cap and the waits  *)
(* possible at k + 1 are not below those at k; with backoff_cap = 0 there  *)
(* is no cap and the wait is backoff_base * 2^k times the jitter factor.   *)
(***************************************************************************)
C25_WaitIsCappedUnlessCapIsZero ==
    backoff.called =>
        LET k == backoff.attempt
            value == IF backoff.cap > 0 THEN CappedValue(backoff.base, backoff.cap, k)
                     ELSE backoff.base * 2^k
            next == compute_backoff(backoff.base, backoff.cap, k + 1)
        IN  /\ WithinJitter(backoff.delay, value)
            /\ backoff.cap > 0 => 100 * backoff.delay <= 125 * backoff.cap
            /\ \E d \in next : d >= backoff.delay
            /\ \A d \in next : 100 * d >= 75 * value

\* the cap at work: base 8 doubled twice is held at the cap 16, with the largest jitter
C25_Witness ==
    /\ backoff.called
    /\ backoff.base = 8 /\ backoff.cap = 16 /\ backoff.attempt = 2
    /\ backoff.delay = 20

(***************************************************************************)
(* C26: a submission that names an unknown style, previous result,         *)
(* uploaded asset or image is rejected in its response and never becomes   *)
(* a job: no job a worker has run ends with a not-found error.             *)
(***************************************************************************)
NotFoundErrors ==
    {"Style not found.", "Uploaded image not found.", "Previous result not found.",
     "Result image not found."}

C26_NotFoundNeverBecomesJob ==
    \A j \in JobIds :
        (request[j].code = 202 /\ backend[j].status = "SUCCESS"
         /\ HasError(backend[j].result))
            => backend[j].result.error \notin NotFoundErrors

(***************************************************************************)
(* C27: when the append to the history raises after the output of a job    *)
(* was saved, the job still succeeds, with the result it would have had    *)
(* if the append had succeeded; for both kinds of job.                     *)
(***************************************************************************)
C27_HistoryFailureSwallowed ==
    (task.called /\ task.did.saved = 1 /\ task.e.history = "raise") =>
        /\ Succeeds(task.did.run)
        /\ task.did.run = task.appends.run
        /\ task.appends.appended = 1 /\ task.did.appended = 0

\* a variation whose history append raised after the result was saved
C27_Witness ==
    /\ task.called /\ task.kind = "variation"
    /\ task.did.saved = 1 /\ task.e.history = "raise"
    /\ Succeeds(task.did.run)

\* a background removal whose history append raised after the output was saved
C27_WitnessBackground ==
    /\ task.called /\ task.kind = "background_removal"
    /\ task.did.saved = 1 /\ task.e.history = "raise"
    /\ Succeeds(task.did.run)

(***************************************************************************)
(* C28: a GenerateVariation job whose instruction is empty or blanks only  *)
(* and whose source resolves never calls the editor, never invokes the     *)
(* remote operation and leaves the breaker as it found it, open or closed, *)
(* editor available or not; its result saved, it succeeds with the copy of *)
(* the source and no instruction used.                                     *)
(***************************************************************************)
BlankVariation ==
    /\ task.called /\ task.kind = "variation"
    /\ task.prompt \in {"", "  "}
    /\ task.did.resolved

C28_BlankInstructionCopiesSource ==
    BlankVariation =>
        /\ task.did.edits = 0 /\ task.did.invocations = 0
        /\ task.did.self = task.before /\ breaker = task.before
        /\ task.e.save = "ok" =>
              /\ Succeeds(task.did.run)
              /\ task.did.run.payload.prompt_used = FALSE
              /\ task.did.saved = 1

\* blanks only, the breaker open and the editor unavailable: the job succeeds
C28_Witness ==
    /\ BlankVariation /\ task.prompt = "  "
    /\ IsOpen(task.before, now) /\ ~task.e.ai_available
    /\ Succeeds(task.did.run) /\ task.did.saved = 1

(***************************************************************************)
(* C29: when an instruction is present and the generation fails (editor    *)
(* unavailable, breaker open, retries exhausted, fatal error) or returns   *)
(* no image, the GenerateVariation job fails: the body raises, no result   *)
(* asset is saved and no history record is appended.                       *)
(***************************************************************************)
GenerationFailed ==
    /\ task.called /\ task.kind = "variation"
    /\ strip(task.prompt) # ""
    /\ task.did.resolved
    /\ \/ ~task.e.ai_available
       \/ task.did.edits = 1 /\ task.did.self.failures > task.before.failures
       \/ task.did.edits = 1 /\ task.did.invocations = 0
       \/ task.did.edits = 1 /\ ~task.e.image

C29_FailedGenerationFailsJob ==
    GenerationFailed =>
        /\ task.did.run.how = "raise"
        /\ task.did.run.exc.type = "AIProcessingError"
        /\ task.did.saved = 0 /\ task.did.appended = 0

\* the retries exhausted: two invocations, both failed, and the job raised
C29_Witness ==
    /\ GenerationFailed
    /\ task.did.invocations = 2
    /\ task.did.run = Raise("AIProcessingError", "AI generation failed; please retry.")
    /\ task.did.saved = 0

\* the operation returned, but the response holds no image
C29_WitnessNoImage ==
    /\ GenerationFailed
    /\ task.did.invocations = 1 /\ task.did.self.failures = 0 /\ ~task.e.image
    /\ task.did.run.how = "raise"

(***************************************************************************)
(* C30: a RemoveBackground job fails when the input asset is absent and    *)
(* when the transform yields no output, saving nothing and appending no    *)
(* history; otherwise, its collaborators working, it invokes the local     *)
(* transform exactly once, saves exactly one asset, appends one history    *)
(* record and succeeds with the new asset id and the original's URL.       *)
(***************************************************************************)
BackgroundRun == task.called /\ task.kind = "background_removal"
\* the asset store and the history work
StoreWorks == task.e.services = "ok" /\ task.e.save = "ok" /\ task.e.history = "ok"
FailsClean ==
    /\ ~Succeeds(task.did.run)
    /\ task.did.saved = 0 /\ task.did.appended = 0
SucceedsOnce ==
    /\ task.did.transforms = 1 /\ task.did.saved = 1 /\ task.did.appended = 1
    /\ task.did.run = Return([job_type |-> "background_removal", image_id |-> "asset",
                              original_url |-> <<"/api/images", "input">>])
    /\ task.did.edits = 0 /\ task.did.invocations = 0 /\ breaker = task.before

C30_WitnessNoOutput ==
    /\ BackgroundRun /\ StoreWorks
    /\ task.e.available /\ task.e.asset_found /\ ~task.e.output
    /\ FailsClean /\ task.did.transforms = 1

(***************************************************************************)
(* C31: _map_task_status gives every state of the queue exactly one public *)
(* status: PENDING and RECEIVED pending, STARTED and RETRY processing,     *)
(* SUCCESS complete and FAILURE failed.                                    *)
(***************************************************************************)
PublicStatuses == {"pending", "processing", "complete", "failed"}

C31_StatesMappedToStatuses ==
    \A j \in JobIds :
        projected[j].called =>
            /\ projected[j].status \in PublicStatuses
            /\ projected[j].state \in {"PENDING", "RECEIVED"}
                  => projected[j].status = "pending"
            /\ projected[j].state \in {"STARTED", "RETRY"}
                  => projected[j].status = "processing"
            /\ projected[j].state = "SUCCESS" => projected[j].status = "complete"
            /\ projected[j].state = "FAILURE" => projected[j].status = "failed"

\* a retrying job read as processing beside a received one read as pending
C31_Witness ==
    /\ projected[1].called /\ projected[1].state = "RETRY"
    /\ projected[1].status = "processing"
    /\ projected[2].called /\ projected[2].state = "RECEIVED"
    /\ projected[2].status = "pending"

(***************************************************************************)
(* C32: every job waits on the queue of its kind and is run by the pool of *)
(* its kind, and a pending job is eventually started unless a job of its   *)
(* own kind holds its pool for ever, however many jobs of the other kind   *)
(* are pending, running or hung.                                           *)
(***************************************************************************)
OnOwnQueue ==
    \A j \in Sent :
        /\ broker.phase[j] = "pending" =>
              \E i \in 1..Len(broker.queue[consumes(broker.names, broker.kind[j])]) :
                  broker.queue[consumes(broker.names, broker.kind[j])][i] = j
        /\ broker.phase[j] \in {"started", "done"} => broker.by[j] = broker.kind[j]

\* the pool of kind k is held for ever by a job of kind k
HeldByOwnKind(k) ==
    /\ broker.pool[k].hung
    /\ broker.kind[broker.pool[k].job] = k

EventuallyStarted ==
    \A j \in Sent :
        (broker.sent >= j /\ broker.phase[j] = "pending")
            ~> (broker.phase[j] # "pending" \/ HeldByOwnKind(broker.kind[j]))

DistinctQueues == broker.names.DEFAULT_QUEUE # broker.names.BG_QUEUE

EventuallyStartedOnDistinctQueues ==
    \A j \in Sent :
        (DistinctQueues /\ broker.sent >= j /\ broker.phase[j] = "pending")
            ~> (broker.phase[j] # "pending" \/ HeldByOwnKind(broker.kind[j]))

EntriesOf(j) == {r \in hist.rows : r.job = j}
AssetsOf(j) == {a \in hist.assets : a.job = j}

C33_ReexecutionAddsNoHistory ==
    \A j \in Deliveries :
        hist.executed[j] = 2 =>
            /\ Cardinality(AssetsOf(j)) <= 2
            /\ Cardinality(EntriesOf(j)) <= 1

(***************************************************************************)
(* C35: list_entries(session, limit) returns entries of that session only, *)
(* and, the session holding more than limit entries, the limit newest by   *)
(* creation time.                                                          *)
(***************************************************************************)
Listed == {hist.listed.entries[i] : i \in 1..Len(hist.listed.entries)}

C35_ListsNewestOfSession ==
    (hist.listed.called /\ hist.listed.limit > 0) =>
        /\ \A r \in Listed : r.session_id = hist.listed.session_id
        /\ Cardinality(hist.listed.held) > hist.listed.limit =>
              /\ Cardinality(Listed) = hist.listed.limit
              /\ \A r \in Listed, o \in hist.listed.held \ Listed :
                    r.created_at > o.created_at

(***************************************************************************)
(* C34: a breaker constructed with threshold <= 0 or cooldown <= 0 is      *)
(* disabled: whatever calls were made, opened_at is not set, allow()       *)
(* returns true now, and every allow() made returned true.                 *)
(***************************************************************************)
Disabled(b) == b.threshold = 0 \/ b.cooldown = 0

C34_DisabledBreakerAlwaysAllows ==
    Disabled(breaker) =>
        /\ breaker.opened_at = 0
        /\ allow(breaker, now).ret
        /\ allow(breaker, now).self = breaker
        /\ lastCall.op = "allow" => lastCall.ret

\* a breaker with a threshold and no cooldown has counted failures up to its threshold
\* and is then asked
C34_Witness ==
    /\ breaker.threshold > 0 /\ breaker.cooldown = 0
    /\ breaker.failures >= breaker.threshold
    /\ lastCall.op = "allow" /\ lastCall.ret

\* a breaker without a threshold is asked after failures were reported to it
C34_WitnessNoThreshold ==
    /\ breaker.threshold = 0
    /\ consecFail >= 2
    /\ lastCall.op = "allow" /\ lastCall.ret

(***************************************************************************)
(* C36: within one call the breaker is asked once, before the first        *)
(* attempt: a call is rejected by the breaker only with no attempt made,   *)
(* a call that made an attempt was admitted, and after a sleep the next    *)
(* attempt follows with the breaker left as it was, open or not.           *)
(***************************************************************************)
RejectedByBreaker ==
    /\ outcome.kind = "raised"
    /\ outcome.msg = "AI temporarily unavailable; please retry."

C36_BreakerAskedOncePerCall ==
    /\ [](RejectedByBreaker => attempts = <<>>)
    /\ [](attempts # <<>> => ~admitted.open)
    /\ [][pc = "sleep" => (pc' = "attempt" /\ breaker' = breaker)]_vars
    /\ [][(pc = "attempt" /\ pc' # "blocked") =>
             (Len(attempts') = Len(attempts) + 1 /\ Len(reports') = Len(reports) + 1)]_vars

\* the first call fails twice and opens the breaker of threshold 2; the second sleep is
\* shorter than the cooldown, and the third attempt is made and returns
C36_Witness ==
    /\ calls = 1
    /\ breaker.threshold = 2 /\ breaker.cooldown > 0
    /\ Len(attempts) = 3 /\ Len(sleeps) = 2
    /\ reports = <<"failure", "failure", "success">>
    /\ sleeps[2] < breaker.cooldown
    /\ outcome.kind = "returned"

(***************************************************************************)
(* C37: while every invocation of a call fails with a retryable error, the *)
(* call ends only after max_retries + 1 invocations, with max_retries      *)
(* backoff waits made, one between two consecutive invocations and none    *)
(* after the last; with max_retries = 0 it is one invocation and no wait.  *)
(***************************************************************************)
C37_AlwaysFailingCallUsesWholeBudget ==
    (attempts # <<>> /\ AllRetryableFailures(attempts)) =>
        /\ pc \in {"sleep", "attempt", "idle"}
        /\ pc = "sleep" => /\ Len(attempts) <= editor.max_retries
                           /\ Len(sleeps) = Len(attempts) - 1
        /\ pc = "attempt" => /\ Len(attempts) <= editor.max_retries
                             /\ Len(sleeps) = Len(attempts)
        /\ pc = "idle" => /\ Len(attempts) = editor.max_retries + 1
                          /\ Len(sleeps) = editor.max_retries
                          /\ outcome = Exhausted
        /\ \A i \in 1..Len(sleeps) :
              sleeps[i] \in compute_backoff(editor.backoff_base, editor.backoff_max, i - 1)
        /\ editor.max_retries = 0 => (pc = "idle" /\ sleeps = <<>>)

\* max_retries = 0: one failed invocation ends the call and nothing was waited
C37_Witness ==
    /\ editor.max_retries = 0
    /\ Len(attempts) = 1 /\ AllRetryableFailures(attempts)
    /\ sleeps = <<>> /\ pc = "idle" /\ outcome = Exhausted

\* max_retries = 2: three failed invocations with two waits between them
C37_WitnessTwoRetries ==
    /\ editor.max_retries = 2 /\ editor.backoff_base > 0
    /\ Len(attempts) = 3 /\ AllRetryableFailures(attempts)
    /\ Len(sleeps) = 2 /\ sleeps[1] > 0 /\ sleeps[2] > 0
    /\ pc = "idle" /\ outcome = Exhausted

(***************************************************************************)
(* C38: when the remote operation returns a response that holds no image,  *)
(* the breaker was told of a success (counter 0, not open), the operation  *)
(* is not invoked again, edit_image raises NanoBananaRetryableError, and   *)
(* the job raises and is projected as failed, nothing saved.               *)
(***************************************************************************)
\* the first invocation of the remote operation that returns
FirstReturn(ops) ==
    CHOOSE i \in DOMAIN ops :
        /\ ops[i].does = "return"
        /\ \A k \in 1..(i - 1) : ops[k].does # "return"

ReturnedNoImage ==
    /\ task.called /\ task.kind = "variation"
    /\ task.did.edits = 1
    /\ task.did.response = "returned"
    /\ ~task.e.image

C38_ResponseWithoutImageFailsJob ==
    ReturnedNoImage =>
        /\ task.did.self.failures = 0 /\ task.did.self.opened_at = 0
        /\ ~IsOpen(task.did.self, now)
        /\ task.did.invocations = FirstReturn(task.ops)
        /\ task.did.raised = "NanoBananaRetryableError"
        /\ task.did.run = Raise("AIProcessingError", "AI generation failed; please retry.")
        /\ build_job_payload(1, MetaOf(task.did.run)).status = "failed"
        /\ task.did.saved = 0 /\ task.did.appended = 0

\* the first invocation fails with a retryable error and is counted; the second returns
\* a response without image, a third invocation would have been within the operations
\* given
C38_Witness ==
    /\ ReturnedNoImage
    /\ task.before.failures = 0
    /\ task.ops[1].does = "raise" /\ task.ops[2].does = "return"
    /\ task.did.invocations = 2
    /\ task.did.self.failures = 0

\* the first invocation returns the response without image; the second operation,
\* which would have returned too, is never invoked
C38_WitnessFirstResponse ==
    /\ ReturnedNoImage
    /\ task.ops[1].does = "return" /\ task.ops[2].does = "return"
    /\ task.did.invocations = 1
    /\ task.did.run.how = "raise"

(***************************************************************************)
(* C39: a job whose state never becomes SUCCESS or FAILURE, its id unknown *)
(* to the queue or its state one the mapping does not name (REVOKED), is   *)
(* projected as pending at every poll: a stream on it has emitted at most  *)
(* one event, a pending one, has not left its loop while the client is     *)
(* connected, and a connected stream on the revoked job does emit that one *)
(* event.                                                                  *)
(***************************************************************************)
Revoked(j) == request[j].phase = "revoked"
NeverSettles(j) == Unused(j) \/ Revoked(j)
StreamedJob == stream.job_id

C39_UnsettledJobStreamsOnePending ==
    /\ [](\A j \in JobIds :
            NeverSettles(j) =>
                build_job_payload(j, backend[j]) = [job_id |-> j, status |-> "pending"])
    /\ []((stream.pc # "none" /\ NeverSettles(StreamedJob)) =>
             /\ Len(events) <= 1
             /\ \A i \in 1..Len(events) : StatusOf(events[i]) = "pending"
             /\ stream.pc = "closed" => ~stream.connected
             /\ stream.pc = "sleep" => Len(events) = 1)
    /\ (stream.pc # "none" /\ Revoked(StreamedJob) /\ stream.connected)
           ~> (Len(events) = 1 \/ ~stream.connected)

\* the stream polls the revoked job a second time, its one pending event emitted
C39_Witness ==
    /\ Revoked(StreamedJob) /\ backend[StreamedJob].status = "REVOKED"
    /\ stream.pc = "emit" /\ stream.connected
    /\ Len(events) = 1 /\ stream.last_payload = events[1]
    /\ StatusOf(events[1]) = "pending"

\* the same on an id that was never submitted
C39_WitnessUnknownId ==
    /\ Unused(StreamedJob)
    /\ stream.pc = "emit" /\ stream.connected
    /\ Len(events) = 1 /\ stream.last_payload = events[1]

\* the stream on the revoked job ended when the client went away
C39_WitnessDisconnected ==
    /\ Revoked(StreamedJob)
    /\ stream.pc = "closed" /\ ~stream.connected
    /\ Len(events) = 1

(***************************************************************************)
(* C40: a task body that returns a payload with an error is stored as      *)
(* SUCCESS, and while it is stored the job is projected as failed with     *)
(* that error message and no result; the payload is terminal for the       *)
(* stream, which ends on it with the failed event as its last event.       *)
(***************************************************************************)
\* the bodies run without a session id, which no handler of the API does
NoSessionRuns ==
    {generate_variation_task([a EXCEPT !.session_id = FALSE], e) :
        a \in VariationArgs, e \in VariationEnvs}
    \cup {remove_background_task([a EXCEPT !.session_id = FALSE], e) :
            a \in BackgroundArgs, e \in BackgroundEnvs}

\* the runs that return an error payload
ErrorRuns ==
    {run \in VariationRuns \cup BackgroundRuns \cup NoSessionRuns :
        run.how = "return" /\ "error" \in DOMAIN run.payload}

ErrorStored(j) == backend[j].status = "SUCCESS" /\ "error" \in DOMAIN backend[j].result
FailedWith(j, msg) == [job_id |-> j, status |-> "failed", error |-> msg]

C40_ErrorPayloadProjectedFailed ==
    /\ [](\A run \in ErrorRuns :
            /\ MetaOf(run).status = "SUCCESS"
            /\ run.payload.error # ""
            /\ build_job_payload(1, MetaOf(run)) = FailedWith(1, run.payload.error)
            /\ is_terminal(build_job_payload(1, MetaOf(run))))
    /\ [](\A j \in JobIds :
            ErrorStored(j) =>
                /\ build_job_payload(j, backend[j]) = FailedWith(j, backend[j].result.error)
                /\ is_terminal(build_job_payload(j, backend[j])))
    /\ []((ClosedByTerminal /\ ErrorStored(StreamedJob)) =>
             LastEvent = json_dumps(FailedWith(StreamedJob,
                                               backend[StreamedJob].result.error)))
    /\ (stream.pc # "none" /\ stream.connected /\ ErrorStored(StreamedJob))
           ~> (ClosedByTerminal \/ ~stream.connected \/ ~ErrorStored(StreamedJob))

\* the stream on a variation job whose body returned "Style not found." ended on the
\* failed event
C40_Witness ==
    /\ ErrorStored(StreamedJob)
    /\ backend[StreamedJob].result = ErrorPayload("variation", "Style not found.")
    /\ ClosedByTerminal
    /\ LastEvent = <<"job_id", StreamedJob, "status", "failed", "error", "Style not found.">>

\* the same for a background removal that was unavailable, after a pending event
C40_WitnessBackground ==
    /\ ErrorStored(StreamedJob)
    /\ backend[StreamedJob].result.error = "Background removal unavailable."
    /\ ClosedByTerminal /\ Len(events) = 2
    /\ StatusOf(events[1]) = "pending" /\ StatusOf(events[2]) = "failed"

====
